---- MODULE Spec2Model ----
(***************************************************************************)
(* Model of the legal document chunker (ai-workflows/src/legal_chunker.py).*)
(* Text is a sequence of one-character strings; a document is the sequence *)
(* of its lines (the result of text.splitlines()).                         *)
(***************************************************************************)
EXTENDS Integers, Sequences, FiniteSets, TLC

\* ---------------------------------------------------------------- bounds
\* Constructor arguments are drawn from -1..MaxTok (plus the defaults).
MaxTok == 2
\* Longest structural document, in lines.
MaxLines == 4
\* Most content lines of a body document (after its section-start line).
MaxBodyLines == 1

\* ------------------------------------------------------ program constants
MIN_TOKENS == 50
MAX_TOKENS == 800
CHARS_PER_TOKEN == 4

\* Python's None: a value that is no text (no character is "None").
None == <<"None">>
\* Python truthiness of an optional string: None and "" are both false.
Falsy(x) == x = None \/ x = <<>>

\* ----------------------------------------------------- character classes
WS == {" ", "\t", "\n"}
DIGITS == {"0", "1", "2", "3", "4", "5", "6", "7", "8", "9"}
LOWER ==
  {"a","b","c","d","e","f","g","h","i","j","k","l","m",
   "n","o","p","q","r","s","t","u","v","w","x","y","z"}
UPPER ==
  {"A","B","C","D","E","F","G","H","I","J","K","L","M",
   "N","O","P","Q","R","S","T","U","V","W","X","Y","Z"}
LETTERS == LOWER \cup UPPER
ALNUM == DIGITS \cup LETTERS
SENTENCE_PUNCT == {".", ";", "!", "?"}

\* ------------------------------------------------------- string helpers
\* First index >= i of s whose character is not in class, Len(s)+1 if none.
RECURSIVE SkipClass(_, _, _)
SkipClass(s, i, class) ==
  IF i > Len(s) \/ s[i] \notin class THEN i ELSE SkipClass(s, i + 1, class)

\* s[i:] (1-based, inclusive).
From(s, i) == SubSeq(s, i, Len(s))

\* str.rstrip()
RECURSIVE RStrip(_)
RStrip(s) ==
  IF s = <<>> \/ s[Len(s)] \notin WS THEN s
  ELSE RStrip(SubSeq(s, 1, Len(s) - 1))

\* str.strip()
Strip(s) == LET r == RStrip(s) IN From(r, SkipClass(r, 1, WS))

\* The indices of s, in increasing order.
Positions(s) == [j \in 1..Len(s) |-> j]

\* re.sub(r"\s+", " ", t): every run of whitespace becomes one space.
CollapseWs(t) ==
  LET kept == SelectSeq(Positions(t), LAMBDA j : ~(t[j] \in WS /\ j > 1 /\ t[j - 1] \in WS))
  IN [j \in 1..Len(kept) |-> IF t[kept[j]] \in WS THEN " " ELSE t[kept[j]]]

trim_whitespace(text) == CollapseWs(Strip(text))

\* sep.join(parts)
RECURSIVE Join(_, _)
Join(sep, parts) ==
  IF parts = <<>> THEN <<>>
  ELSE IF Len(parts) = 1 THEN parts[1]
  ELSE parts[1] \o sep \o Join(sep, Tail(parts))

\* " ".join(parts)
JoinSp(parts) == Join(<<" ">>, parts)

\* str(n) for n >= 0
RECURSIVE IntStr(_)
IntStr(n) ==
  LET digit(d) == <<"0","1","2","3","4","5","6","7","8","9">>[d + 1]
  IN IF n < 10 THEN <<digit(n)>> ELSE IntStr(n \div 10) \o <<digit(n % 10)>>

\* Concatenation of a sequence of sequences.
RECURSIVE Flatten(_)
Flatten(ss) == IF ss = <<>> THEN <<>> ELSE ss[1] \o Flatten(Tail(ss))

Max(a, b) == IF a >= b THEN a ELSE b
Min(a, b) == IF a <= b THEN a ELSE b

estimate_tokens(text) ==
  Max(1, (Len(text) + CHARS_PER_TOKEN - 1) \div CHARS_PER_TOKEN)

\* --------------------------------------------------- regular expressions
\* s has word at index i, ignoring case (re.IGNORECASE): word is given by its
\* upper-case and lower-case spellings.
HasWordAt(s, i, upper, lower) ==
  /\ i + Len(upper) - 1 <= Len(s)
  /\ \A k \in 1..Len(upper) : s[i + k - 1] \in {upper[k], lower[k]}

\* ^\s*WORD\s+(\d+)[\s\-:]*  with re.IGNORECASE, applied with match():
\* group(1) when the line matches, None otherwise.
HeaderMatch(upper, lower, line) ==
  LET w == SkipClass(line, 1, WS)
      a == w + Len(upper)
      d == SkipClass(line, a, WS)
      e == SkipClass(line, d, DIGITS)
  IN IF HasWordAt(line, w, upper, lower) /\ d > a /\ e > d
     THEN SubSeq(line, d, e - 1)
     ELSE None

TITLE_RE(line) ==
  HeaderMatch(<<"T","I","T","L","E">>, <<"t","i","t","l","e">>, line)
ARTICLE_RE(line) ==
  HeaderMatch(<<"A","R","T","I","C","L","E">>, <<"a","r","t","i","c","l","e">>, line)
PART_RE(line) ==
  HeaderMatch(<<"P","A","R","T">>, <<"p","a","r","t">>, line)

\* ^(?P<num>\d+-\d+-\d+(?:\.\d+)?)[\.]?\s*(?P<title>.*)$ applied with
\* match(): <<num, title>> when the line matches, NoMatch otherwise.  No leading
\* whitespace is accepted, and everything after the number is the title.
NoMatch == <<>>
SECTION_START_RE(line) ==
  LET e1 == SkipClass(line, 1, DIGITS)
      e2 == SkipClass(line, e1 + 1, DIGITS)
      e3 == SkipClass(line, e2 + 1, DIGITS)
      ok == /\ e1 > 1 /\ e1 <= Len(line) /\ line[e1] = "-"
            /\ e2 > e1 + 1 /\ e2 <= Len(line) /\ line[e2] = "-"
            /\ e3 > e2 + 1
      e4 == SkipClass(line, e3 + 1, DIGITS)
      ext == e3 <= Len(line) /\ line[e3] = "." /\ e4 > e3 + 1
      n == IF ext THEN e4 ELSE e3
      p == IF n <= Len(line) /\ line[n] = "." THEN n + 1 ELSE n
      t == SkipClass(line, p, WS)
  IN IF ok
     THEN <<SubSeq(line, 1, n - 1), From(line, t)>>
     ELSE NoMatch

\* ^\s*Editor's note:|^\s*Editors note:  with re.IGNORECASE, applied with
\* search() (the typographic-apostrophe alternative behaves like the first).
EDITORS_NOTE_RE(line) ==
  LET w == SkipClass(line, 1, WS)
  IN \/ HasWordAt(line, w,
          <<"E","D","I","T","O","R","'","S"," ","N","O","T","E",":">>,
          <<"e","d","i","t","o","r","'","s"," ","n","o","t","e",":">>)
     \/ HasWordAt(line, w,
          <<"E","D","I","T","O","R","S"," ","N","O","T","E",":">>,
          <<"e","d","i","t","o","r","s"," ","n","o","t","e",":">>)

\* One match of \((?:\d+|[a-z]|[ivx]+)\) (re.IGNORECASE) starting at p:
\* the index after the match, 0 when there is none.
MarkEnd(s, p) ==
  IF p > Len(s) \/ s[p] # "(" THEN 0
  ELSE LET q == SkipClass(s, p + 1, ALNUM)
           inner == SubSeq(s, p + 1, q - 1)
           allIn(set) == \A k \in 1..Len(inner) : inner[k] \in set
       IN IF /\ q <= Len(s) /\ s[q] = ")" /\ Len(inner) >= 1
             /\ \/ allIn(DIGITS)
                \/ Len(inner) = 1 /\ inner[1] \in LETTERS
                \/ allIn({"i", "v", "x", "I", "V", "X"})
          THEN q + 1
          ELSE 0

\* SUBSECTION_RE.finditer(text): the start indices of the matches, leftmost
\* first.  A match holds no "(" after its first character, so no two
\* matches overlap and every index where the pattern matches is reported.
SubsectionMatches(s) == SelectSeq(Positions(s), LAMBDA p : MarkEnd(s, p) > 0)

\* --------------------------------------------------------- chunk builder
\* re.finditer(r"([\.;!?])(\s+)", text): the start indices of the matches.
\* A match is one punctuation character and the whitespace run after it, so
\* no two matches overlap.
SentenceBreaks(text) ==
  SelectSeq(Positions(text), LAMBDA p : /\ text[p] \in SENTENCE_PUNCT
                           /\ p + 1 <= Len(text)
                           /\ text[p + 1] \in WS)

\* The parts list of split_on_sentences before its final filter: one part
\* per match, from the end of the previous match to the end of this one, and
\* the tail when it is not empty.
SentenceParts(text) ==
  LET breaks == SentenceBreaks(text)
      endOf(m) == SkipClass(text, breaks[m] + 1, WS)
      startOf(m) == IF m = 1 THEN 1 ELSE endOf(m - 1)
      tail == Strip(From(text, IF breaks = <<>> THEN 1 ELSE endOf(Len(breaks))))
  IN [m \in 1..Len(breaks) |-> Strip(SubSeq(text, startOf(m), endOf(m) - 1))]
       \o (IF tail # <<>> THEN <<tail>> ELSE <<>>)

split_on_sentences(text) ==
  SelectSeq(SentenceParts(text), LAMBDA part : part # <<>>)

\* Mutant of _split_by_subsections: a single marker is enough to split
\* (< 1 written for < 2).
_split_by_subsectionsOneMarker(text) ==
  LET matches == SubsectionMatches(text)
  IN IF Len(matches) < 1 THEN <<>>
     ELSE [i \in 1..Len(matches) |->
            LET start == matches[i]
                mark == SubSeq(text, start, MarkEnd(text, start) - 1)
                end == IF i + 1 <= Len(matches) THEN matches[i + 1] - 1
                       ELSE Len(text)
                body == SubSeq(text, start, end)
            IN <<mark, trim_whitespace(From(body, Len(mark) + 1))>>]

\* Mutant of _split_by_subsections: the first span starts at the beginning
\* of the text, so it keeps the text that precedes the first marker.
_split_by_subsectionsKeepsPreamble(text) ==
  LET matches == SubsectionMatches(text)
  IN IF Len(matches) < 2 THEN <<>>
     ELSE [i \in 1..Len(matches) |->
            LET start == matches[i]
                mark == SubSeq(text, start, MarkEnd(text, start) - 1)
                end == IF i + 1 <= Len(matches) THEN matches[i + 1] - 1
                       ELSE Len(text)
                body == SubSeq(text, start, end)
                before == IF i = 1 THEN SubSeq(text, 1, start - 1) ELSE <<>>
            IN <<mark, trim_whitespace(before \o From(body, Len(mark) + 1))>>]

\* Returns the (marker, body) pairs, <<>> when fewer than 2 markers.
_split_by_subsections(text) ==
  LET matches == SubsectionMatches(text)
  IN IF Len(matches) < 2 THEN <<>>
     ELSE [i \in 1..Len(matches) |->
            LET start == matches[i]
                mark == SubSeq(text, start, MarkEnd(text, start) - 1)
                end == IF i + 1 <= Len(matches) THEN matches[i + 1] - 1
                       ELSE Len(text)
                body == SubSeq(text, start, end)
            IN <<mark, trim_whitespace(From(body, Len(mark) + 1))>>]

_make_chunk(content, section_number, section_title, subsection, hierarchy) ==
  [content |-> content,
   section_number |-> section_number,
   section_title |-> section_title,
   subsection |-> subsection,
   hierarchy |-> hierarchy,
   full_citation |-> Strip(section_number \o <<".", " ">> \o section_title),
   token_count |-> estimate_tokens(content)]

RECURSIVE HardSlices(_, _, _)
\* The while loop of _hard_split: the non-empty trimmed slices from start on
\* (start is 1-based here).
HardSlices(max_chars, text, start) ==
  IF start > Len(text) THEN <<>>
  ELSE LET end == Min(Len(text), start - 1 + max_chars)
           piece == trim_whitespace(SubSeq(text, start, end))
       IN (IF piece # <<>> THEN <<piece>> ELSE <<>>)
            \o HardSlices(max_chars, text, end + 1)

_hard_split(self, text, section_number, section_title, subsection, hierarchy) ==
  LET pieces == HardSlices(self.max_tokens * CHARS_PER_TOKEN, text, 1)
  IN [j \in 1..Len(pieces) |->
        _make_chunk(pieces[j], section_number, section_title, subsection, hierarchy)]

RECURSIVE SentenceLoopLosesPiece(_, _, _, _, _)
\* Mutant of SentenceLoop: after a flush the new buffer starts empty, so the
\* piece that caused the flush is lost.
SentenceLoopLosesPiece(self, sentences, k, current, current_len) ==
  IF k > Len(sentences)
  THEN LET piece == trim_whitespace(JoinSp(current))
       IN IF current # <<>> /\ piece # <<>> THEN <<piece>> ELSE <<>>
  ELSE LET s == trim_whitespace(sentences[k])
           tks == estimate_tokens(s)
       IN IF s = <<>>
          THEN SentenceLoopLosesPiece(self, sentences, k + 1, current, current_len)
          ELSE IF current # <<>> /\ current_len + tks > self.max_tokens
               THEN LET piece == trim_whitespace(JoinSp(current))
                    IN (IF piece # <<>> THEN <<piece>> ELSE <<>>)
                         \o SentenceLoopLosesPiece(self, sentences, k + 1, <<>>, 0)
               ELSE SentenceLoopLosesPiece(self, sentences, k + 1,
                                           Append(current, s), current_len + tks)

RECURSIVE SentenceLoop(_, _, _, _, _)
\* The for loop of _chunk_text_body over the sentences from index k on, with
\* the running buffer (current, current_len), and the final flush: the
\* contents of the chunks appended.
SentenceLoop(self, sentences, k, current, current_len) ==
  IF k > Len(sentences)
  THEN LET piece == trim_whitespace(JoinSp(current))
       IN IF current # <<>> /\ piece # <<>> THEN <<piece>> ELSE <<>>
  ELSE LET s == trim_whitespace(sentences[k])
           tks == estimate_tokens(s)
       IN IF s = <<>>
          THEN SentenceLoop(self, sentences, k + 1, current, current_len)
          ELSE IF current # <<>> /\ current_len + tks > self.max_tokens
               THEN LET piece == trim_whitespace(JoinSp(current))
                    IN (IF piece # <<>> THEN <<piece>> ELSE <<>>)
                         \o SentenceLoop(self, sentences, k + 1, <<s>>, tks)
               ELSE SentenceLoop(self, sentences, k + 1,
                                 Append(current, s), current_len + tks)

\* Mutant of _chunk_text_body: a text below min_tokens is not emitted.
_chunk_text_bodyDropsSmall(self, section_number, section_title, subsection, hierarchy, body) ==
  LET text == trim_whitespace(body)
      tokens == estimate_tokens(text)
      sentences == split_on_sentences(text)
      pieces == SentenceLoop(self, sentences, 1, <<>>, 0)
  IN IF text = <<>> THEN <<>>
     ELSE IF tokens <= self.max_tokens
          THEN IF tokens < self.min_tokens THEN <<>>
               ELSE <<_make_chunk(text, section_number, section_title, subsection, hierarchy)>>
          ELSE IF sentences = <<>>
               THEN _hard_split(self, text, section_number, section_title,
                                subsection, hierarchy)
               ELSE [j \in 1..Len(pieces) |->
                       _make_chunk(pieces[j], section_number, section_title,
                                   subsection, hierarchy)]

_chunk_text_body(self, section_number, section_title, subsection, hierarchy, body) ==
  LET text == trim_whitespace(body)
      tokens == estimate_tokens(text)
      sentences == split_on_sentences(text)
      pieces == SentenceLoop(self, sentences, 1, <<>>, 0)
  IN IF text = <<>> THEN <<>>
     ELSE IF tokens <= self.max_tokens
          THEN <<_make_chunk(text, section_number, section_title, subsection, hierarchy)>>
          ELSE IF sentences = <<>>
               THEN _hard_split(self, text, section_number, section_title,
                                subsection, hierarchy)
               ELSE [j \in 1..Len(pieces) |->
                       _make_chunk(pieces[j], section_number, section_title,
                                   subsection, hierarchy)]

\* Lines 261-279 of parse_document for one (sub_mark, sub_body) pair.
SubsectionChunks(self, sec_num, sec_title, hierarchy, sub) ==
  LET sub_mark == sub[1]
      sub_body == sub[2]
      subsubs == _split_by_subsections(sub_body)
  IN IF estimate_tokens(sub_body) > self.max_tokens /\ subsubs # <<>>
     THEN Flatten([j \in 1..Len(subsubs) |->
            _chunk_text_body(self, sec_num, sec_title,
                             sub_mark \o subsubs[j][1], hierarchy, subsubs[j][2])])
     ELSE _chunk_text_body(self, sec_num, sec_title, sub_mark, hierarchy, sub_body)

\* trim_whitespace(" ".join(ln for ln in sec_lines if ln))
SectionText(sec_lines) ==
  trim_whitespace(JoinSp(SelectSeq(sec_lines, LAMBDA ln : ln # <<>>)))

\* The body of the loop at lines 249-279 for one section: the chunks it adds.
SectionChunks(self, section, hierarchy) ==
  LET sec_num == section[1]
      sec_title == section[2]
      section_text == SectionText(section[3])
      subsections == _split_by_subsections(section_text)
  IN IF section_text = <<>> THEN <<>>
     ELSE IF subsections = <<>>
          THEN _chunk_text_body(self, sec_num, sec_title, None, hierarchy, section_text)
          ELSE Flatten([j \in 1..Len(subsections) |->
                 SubsectionChunks(self, sec_num, sec_title, hierarchy, subsections[j])])

\* ---------------------------------------------------------------- inputs
\* TITLE 17
LineTitle ==
  <<"T","I","T","L","E"," ","1","7">>
\* ARTICLE 1
LineArticle ==
  <<"A","R","T","I","C","L","E"," ","1">>
\* PART 1
LinePart ==
  <<"P","A","R","T"," ","1">>
\* 17-1-101. Executive director. (1) The governor shall appoint a director. (2) There is created a division.
LineSectionWithText ==
  <<"1","7","-","1","-","1","0","1","."," ","E","x","e","c","u","t","i","v",
    "e"," ","d","i","r","e","c","t","o","r","."," ","(","1",")"," ","T","h",
    "e"," ","g","o","v","e","r","n","o","r"," ","s","h","a","l","l"," ","a",
    "p","p","o","i","n","t"," ","a"," ","d","i","r","e","c","t","o","r",".",
    " ","(","2",")"," ","T","h","e","r","e"," ","i","s"," ","c","r","e","a",
    "t","e","d"," ","a"," ","d","i","v","i","s","i","o","n",".">>
\* 17-1-101. B
LineSection ==
  <<"1","7","-","1","-","1","0","1","."," ","B">>
\* (1) a. (2) b.
LineSubsections ==
  <<"(","1",")"," ","a","."," ","(","2",")"," ","b",".">>
\* 17-1-102.5 C
LineSectionDecimal ==
  <<"1","7","-","1","-","1","0","2",".","5"," ","C">>
\* abcdefghijklmn
LineUnpunctuated ==
  <<"a","b","c","d","e","f","g","h","i","j","k","l","m","n">>
\* ab. cd. ef. gh.
LineSentences ==
  <<"a","b","."," ","c","d","."," ","e","f","."," ","g","h",".">>
\* abc. abc. x.
LineTightSentences ==
  <<"a","b","c","."," ","a","b","c","."," ","x",".">>
\* x (1) a. (2) b.
LinePreamble ==
  <<"x"," ","(","1",")"," ","a","."," ","(","2",")"," ","b",".">>
\* (1) aaaa (a) b (b) c (2) d
LineNested ==
  <<"(","1",")"," ","a","a","a","a"," ","(","a",")"," ","b"," ","(","b",")",
    " ","c"," ","(","2",")"," ","d">>
\* (1) a
LineOneMarker ==
  <<"(","1",")"," ","a">>
\* (the empty line)
LineEmpty ==
  <<>>
\* Editor's note: x
LineEditorsNote ==
  <<"E","d","i","t","o","r","'","s"," ","n","o","t","e",":"," ","x">>

\* (two spaces) 17-1-102. D
LineSectionIndented ==
  <<" "," ","1","7","-","1","-","1","0","2","."," ","D">>
\* x (1) (2) b
LineEmptySpan ==
  <<"x"," ","(","1",")"," ","(","2",")"," ","b">>

ScanPool ==
  {LineTitle, LineArticle, LinePart, LineSection, LineSubsections}
BodyPool ==
  {LineUnpunctuated, LineSentences, LineTightSentences, LinePreamble,
   LineNested, LineOneMarker, LineEmpty, LineEditorsNote}
\* Structural documents: up to MaxLines lines, each a header, a section
\* start or a content line.
ScanDocs == UNION {[1..n -> ScanPool] : n \in 1..MaxLines}
\* Body documents: one section-start line and up to MaxBodyLines content lines.
BodyDocs ==
  {<<LineSection>> \o b : b \in UNION {[1..n -> BodyPool] : n \in 1..MaxBodyLines}}
\* A section with one content line, then a second section-start line (with
\* the same number, another number or leading spaces) or an editor's note,
\* then one more content line.
PairDocs ==
  {<<LineSection, a, s, b>> :
     a \in BodyPool,
     s \in {LineSection, LineSectionDecimal, LineSectionIndented, LineEditorsNote},
     b \in BodyPool}
\* The document of scenario 1: three header lines and a section line that
\* carries its text.
Scenario1Text == <<LineTitle, LineArticle, LinePart, LineSectionWithText>>
\* A section whose text has a preamble and a marker without body.
EmptySpanText == <<LineSection, LineEmptySpan>>
Documents ==
  ScanDocs \cup BodyDocs \cup PairDocs \cup {Scenario1Text, EmptySpanText}
\* Constructor arguments: small integers around zero, the defaults (50, 800)
\* and the inverted pair (100, 50).
ConfigArgs ==
  ((-1..MaxTok) \X (-1..MaxTok)) \cup {<<MIN_TOKENS, MAX_TOKENS>>, <<100, 50>>}

\* ----------------------------------------------------------------- state
VARIABLES
  pc,                     \* where the caller is: new, error, ready, pass1,
                          \* pass2, chunk, parsed, prepare, done
  init_args,              \* the arguments of the last __init__ call
  chunker,                \* the LegalChunker instances that exist (0 or 1)
  text,                   \* text.splitlines() of the document being parsed
  i,                      \* index of the next line of the running pass
  current_title, current_article, current_part,
  buffer_lines, buffer_section_number, buffer_section_title,
  sections,               \* (section_number, section_title, lines) triples
  section_hierarchies,
  idx,                    \* index of the next section to chunk
  chunks,
  origin,                 \* for each chunk, the idx of the section it is from
  k,                      \* index of the next chunk to prepare
  base_id_counts, documents, metadatas, ids

instance_vars == <<init_args, chunker>>
scan_vars ==
  <<text, i, current_title, current_article, current_part, buffer_lines,
    buffer_section_number, buffer_section_title, sections>>
hier_vars == <<section_hierarchies>>
chunk_vars == <<idx, chunks, origin>>
prep_vars == <<k, base_id_counts, documents, metadatas, ids>>

\* State of the directory ingestion endpoint (api/rest_api.py).
VARIABLES
  dir_pc,                 \* where the endpoint is: idle, loop, returned
  disk,                   \* the data directory: path -> file content
  collection,             \* the target Chroma collection: a set of documents
  skip_on_duplicate,      \* input_data.skip_on_duplicate of the running request
  files,                  \* the paths gathered for the running request
  fidx,                   \* index of the next path of the loop over files
  scanned, ingested, skipped, per_file_results,
  requests,               \* number of requests received
  edits,                  \* number of times a file was rewritten
  trace,                  \* per result: did the collection hold the file's
                          \* hash when its turn began, was add_documents called
  stable,                 \* the last request returned without error entry and
                          \* no file was rewritten since it was received
  rerun,                  \* stable, as it was when the running request came
  coll_at_start           \* collection, as it was when the running request came

dir_vars ==
  <<dir_pc, disk, collection, skip_on_duplicate, files, fidx, scanned, ingested,
    skipped, per_file_results, requests, edits, trace, stable, rerun,
    coll_at_start>>

\* State of the PDF processing script
\* (legal-assistant-n8n/process-pdfs-from-storage-idempotent.py).
VARIABLES
  pdf_pc,                 \* where main() is: idle, check_if_processed,
                          \* download_pdf, check_content_hash, extract, store,
                          \* log, done
  storage,                \* the storage bucket: file name -> file content
  tables,                 \* table name -> the batches inserted, in order
  processing_logs,        \* the rows of document_processing_logs
  table_name,             \* the table detect_table_schema chose
  pdf_files,              \* the file names main() loops over
  findex,                 \* index of the file main() is at
  batch_start, success_count,
  processed_count, skipped_count,
  runs                    \* number of times main() was started

pdf_vars ==
  <<pdf_pc, storage, tables, processing_logs, table_name, pdf_files, findex,
    batch_start, success_count, processed_count, skipped_count, runs>>
ingest_vars == <<dir_vars, pdf_vars>>

\* State of a direct call of LegalChunker._hard_split.
VARIABLES
  hs_text,                \* the text argument
  hs_start,               \* start (0-based offset into the text)
  hs_out,                 \* out: the bodies of the chunks appended so far
  hs_iterations           \* number of iterations of the while loop so far

split_vars == <<hs_text, hs_start, hs_out, hs_iterations>>
vars ==
  <<pc, instance_vars, scan_vars, hier_vars, chunk_vars, prep_vars, ingest_vars, split_vars>>

\* The instance parse_document runs on.
Self == chunker[1]
EmptyDict == [b \in {} |-> 0]

\* The chunker before any call.
ChunkerIdle ==
  /\ pc = "new"
  /\ init_args = <<>>
  /\ chunker = <<>>
  /\ text = <<>>
  /\ i = 1
  /\ current_title = None /\ current_article = None /\ current_part = None
  /\ buffer_lines = <<>>
  /\ buffer_section_number = None
  /\ buffer_section_title = <<>>
  /\ sections = <<>>
  /\ section_hierarchies = <<>>
  /\ idx = 1
  /\ chunks = <<>>
  /\ origin = <<>>
  /\ k = 1
  /\ base_id_counts = EmptyDict
  /\ documents = <<>> /\ metadatas = <<>> /\ ids = <<>>
  /\ hs_text = <<>> /\ hs_start = 0 /\ hs_out = <<>> /\ hs_iterations = 0

\* The endpoint before any request, on an empty data directory.
DirIdle ==
  /\ dir_pc = "idle"
  /\ disk = <<>>
  /\ collection = {}
  /\ skip_on_duplicate = TRUE
  /\ files = <<>>
  /\ fidx = 1
  /\ scanned = 0 /\ ingested = 0 /\ skipped = 0
  /\ per_file_results = <<>>
  /\ requests = 0
  /\ edits = 0
  /\ trace = <<>>
  /\ stable = FALSE /\ rerun = FALSE
  /\ coll_at_start = {}

\* The two tables the script reads and writes.
TableNames == {"legal_document_embeddings", "legal_documents_vectors"}

\* The script before any run, on an empty bucket.
PdfIdle ==
  /\ pdf_pc = "idle"
  /\ storage = <<>>
  /\ tables = [t \in TableNames |-> <<>>]
  /\ processing_logs = <<>>
  /\ table_name = "legal_document_embeddings"
  /\ pdf_files = <<>>
  /\ findex = 1
  /\ batch_start = 0 /\ success_count = 0
  /\ processed_count = 0 /\ skipped_count = 0
  /\ runs = 0

Init == ChunkerIdle /\ DirIdle /\ PdfIdle

\* ------------------------------------------------------------ construction
\* Mutant of InvalidBounds: equal bounds are accepted (> written for >=).
InvalidBoundsStrict(min_tokens, max_tokens) ==
  min_tokens <= 0 \/ max_tokens <= 0 \/ min_tokens > max_tokens

\* The condition under which __init__ raises ValueError.
InvalidBounds(min_tokens, max_tokens) ==
  min_tokens <= 0 \/ max_tokens <= 0 \/ min_tokens >= max_tokens

__init__(min_tokens, max_tokens) ==
  /\ pc = "new"
  /\ init_args' = <<min_tokens, max_tokens>>
  /\ IF InvalidBounds(min_tokens, max_tokens)
     THEN pc' = "error" /\ chunker' = chunker
     ELSE /\ pc' = "ready"
          /\ chunker' = <<[min_tokens |-> min_tokens, max_tokens |-> max_tokens]>>
  /\ UNCHANGED <<scan_vars, hier_vars, chunk_vars, prep_vars, ingest_vars, split_vars>>

Construct == pc = "new" /\ \E args \in ConfigArgs : __init__(args[1], args[2])

\* -------------------------------------------------- parse_document, pass 1
\* Lines 130-141: the locals of parse_document at the start of the first loop.
ParseStart ==
  /\ pc = "ready"
  /\ \E t \in Documents : text' = t
  /\ i' = 1
  /\ current_title' = None /\ current_article' = None /\ current_part' = None
  /\ buffer_lines' = <<>>
  /\ buffer_section_number' = None
  /\ buffer_section_title' = <<>>
  /\ sections' = <<>>
  /\ pc' = "pass1"
  /\ UNCHANGED <<instance_vars, ingest_vars, split_vars, hier_vars, chunk_vars, prep_vars>>

\* line = raw_line.rstrip() for the line the running pass is at.
Line == RStrip(text[i])

Label(word, number) == word \o <<" ">> \o number

\* Mutant of FlushedSections: a section without buffered lines is kept.
FlushedSectionsKeepsEmpty ==
  IF buffer_section_number # None
  THEN Append(sections,
              <<buffer_section_number, buffer_section_title, buffer_lines>>)
  ELSE sections

\* The sections list after flush_section().
FlushedSections ==
  IF buffer_section_number # None /\ buffer_lines # <<>>
  THEN Append(sections,
              <<buffer_section_number, buffer_section_title, buffer_lines>>)
  ELSE sections

flush_section ==
  /\ sections' = FlushedSections
  /\ buffer_lines' = <<>>
  /\ buffer_section_number' = None
  /\ buffer_section_title' = <<>>

InPass1 == pc = "pass1" /\ i <= Len(text)
Pass1Frame ==
  /\ i' = i + 1
  /\ UNCHANGED <<pc, text, instance_vars, ingest_vars, split_vars, hier_vars, chunk_vars, prep_vars>>

\* Mutant of FirstPassEditorsNote: the note is buffered like a content line.
FirstPassEditorsNoteBuffered ==
  /\ InPass1
  /\ EDITORS_NOTE_RE(Line)
  /\ buffer_lines' = IF buffer_section_number # None
                     THEN Append(buffer_lines, Line)
                     ELSE buffer_lines
  /\ Pass1Frame
  /\ UNCHANGED <<current_title, current_article, current_part,
                 buffer_section_number, buffer_section_title, sections>>

FirstPassEditorsNote ==
  /\ InPass1
  /\ EDITORS_NOTE_RE(Line)
  /\ Pass1Frame
  /\ UNCHANGED <<current_title, current_article, current_part, buffer_lines,
                 buffer_section_number, buffer_section_title, sections>>

FirstPassTitle ==
  /\ InPass1
  /\ ~EDITORS_NOTE_RE(Line)
  /\ TITLE_RE(Line) # None
  /\ current_title' = Label(<<"T","I","T","L","E">>, TITLE_RE(Line))
  /\ flush_section
  /\ Pass1Frame
  /\ UNCHANGED <<current_article, current_part>>

\* Mutant of FirstPassArticle: the open section is left open.
FirstPassArticleKeepsOpen ==
  /\ InPass1
  /\ ~EDITORS_NOTE_RE(Line)
  /\ TITLE_RE(Line) = None
  /\ ARTICLE_RE(Line) # None
  /\ current_article' = Label(<<"A","R","T","I","C","L","E">>, ARTICLE_RE(Line))
  /\ Pass1Frame
  /\ UNCHANGED <<current_title, current_part, buffer_lines,
                 buffer_section_number, buffer_section_title, sections>>

FirstPassArticle ==
  /\ InPass1
  /\ ~EDITORS_NOTE_RE(Line)
  /\ TITLE_RE(Line) = None
  /\ ARTICLE_RE(Line) # None
  /\ current_article' = Label(<<"A","R","T","I","C","L","E">>, ARTICLE_RE(Line))
  /\ flush_section
  /\ Pass1Frame
  /\ UNCHANGED <<current_title, current_part>>

FirstPassPart ==
  /\ InPass1
  /\ ~EDITORS_NOTE_RE(Line)
  /\ TITLE_RE(Line) = None
  /\ ARTICLE_RE(Line) = None
  /\ PART_RE(Line) # None
  /\ current_part' = Label(<<"P","A","R","T">>, PART_RE(Line))
  /\ flush_section
  /\ Pass1Frame
  /\ UNCHANGED <<current_title, current_article>>

NoHeader(line) ==
  TITLE_RE(line) = None /\ ARTICLE_RE(line) = None /\ PART_RE(line) = None

FirstPassSectionStart ==
  /\ InPass1
  /\ ~EDITORS_NOTE_RE(Line)
  /\ NoHeader(Line)
  /\ SECTION_START_RE(Line) # NoMatch
  /\ sections' = FlushedSections
  /\ buffer_lines' = <<>>
  /\ buffer_section_number' = Strip(SECTION_START_RE(Line)[1])
  /\ buffer_section_title' = Strip(SECTION_START_RE(Line)[2])
  /\ Pass1Frame
  /\ UNCHANGED <<current_title, current_article, current_part>>

\* Mutant of FirstPassContent: a content line read while no section is open
\* opens a section without number instead of being dropped.
FirstPassContentKeepsOrphans ==
  /\ InPass1
  /\ ~EDITORS_NOTE_RE(Line)
  /\ NoHeader(Line)
  /\ SECTION_START_RE(Line) = NoMatch
  /\ buffer_lines' = Append(buffer_lines, Line)
  /\ buffer_section_number' = IF buffer_section_number # None
                               THEN buffer_section_number
                               ELSE <<>>
  /\ Pass1Frame
  /\ UNCHANGED <<current_title, current_article, current_part,
                 buffer_section_title, sections>>

\* Lines 186-191: a regular content line.
FirstPassContent ==
  /\ InPass1
  /\ ~EDITORS_NOTE_RE(Line)
  /\ NoHeader(Line)
  /\ SECTION_START_RE(Line) = NoMatch
  /\ buffer_lines' = IF buffer_section_number # None
                     THEN Append(buffer_lines, Line)
                     ELSE buffer_lines
  /\ Pass1Frame
  /\ UNCHANGED <<current_title, current_article, current_part,
                 buffer_section_number, buffer_section_title, sections>>

\* Line 194 (the last flush) and lines 217-220 (the second pass's locals).
FirstPassEnd ==
  /\ pc = "pass1"
  /\ i > Len(text)
  /\ flush_section
  /\ section_hierarchies' = <<>>
  /\ current_title' = None /\ current_article' = None /\ current_part' = None
  /\ i' = 1
  /\ pc' = "pass2"
  /\ UNCHANGED <<text, instance_vars, ingest_vars, split_vars, chunk_vars, prep_vars>>

\* -------------------------------------------------- parse_document, pass 2
InPass2 == pc = "pass2" /\ i <= Len(text)
Pass2Frame ==
  /\ i' = i + 1
  /\ UNCHANGED <<pc, text, instance_vars, ingest_vars, split_vars, buffer_lines, buffer_section_number,
                 buffer_section_title, sections, chunk_vars, prep_vars>>

\* Mutant of SecondPassTitle: the article and part slots are kept, as the
\* first pass keeps them.
SecondPassTitleKeepsSlots ==
  /\ InPass2
  /\ TITLE_RE(Line) # None
  /\ current_title' = Label(<<"T","I","T","L","E">>, TITLE_RE(Line))
  /\ Pass2Frame
  /\ UNCHANGED <<current_article, current_part, section_hierarchies>>

SecondPassTitle ==
  /\ InPass2
  /\ TITLE_RE(Line) # None
  /\ current_title' = Label(<<"T","I","T","L","E">>, TITLE_RE(Line))
  /\ current_article' = None
  /\ current_part' = None
  /\ Pass2Frame
  /\ UNCHANGED section_hierarchies

SecondPassArticle ==
  /\ InPass2
  /\ TITLE_RE(Line) = None
  /\ ARTICLE_RE(Line) # None
  /\ current_article' = Label(<<"A","R","T","I","C","L","E">>, ARTICLE_RE(Line))
  /\ current_part' = None
  /\ Pass2Frame
  /\ UNCHANGED <<current_title, section_hierarchies>>

SecondPassPart ==
  /\ InPass2
  /\ TITLE_RE(Line) = None
  /\ ARTICLE_RE(Line) = None
  /\ PART_RE(Line) # None
  /\ current_part' = Label(<<"P","A","R","T">>, PART_RE(Line))
  /\ Pass2Frame
  /\ UNCHANGED <<current_title, current_article, section_hierarchies>>

\* [h for h in [current_title, current_article, current_part] if h]
Snapshot ==
  SelectSeq(<<current_title, current_article, current_part>>,
            LAMBDA h : ~Falsy(h))

SecondPassSectionStart ==
  /\ InPass2
  /\ NoHeader(Line)
  /\ SECTION_START_RE(Line) # NoMatch
  /\ section_hierarchies' = Append(section_hierarchies, Snapshot)
  /\ Pass2Frame
  /\ UNCHANGED <<current_title, current_article, current_part>>

SecondPassOther ==
  /\ InPass2
  /\ NoHeader(Line)
  /\ SECTION_START_RE(Line) = NoMatch
  /\ Pass2Frame
  /\ UNCHANGED <<current_title, current_article, current_part,
                 section_hierarchies>>

\* Mutant of AlignedHierarchies: a list that is too long keeps its last
\* entries instead of its first.
AlignedHierarchiesKeepsLast ==
  LET n == Len(section_hierarchies)
      m == Len(sections)
  IN IF n # 0 /\ n # m
     THEN IF n < m
          THEN [j \in 1..m |-> IF j <= n THEN section_hierarchies[j]
                               ELSE section_hierarchies[n]]
          ELSE SubSeq(section_hierarchies, n - m + 1, n)
     ELSE IF n = 0 /\ m # 0
          THEN [j \in 1..m |-> <<>>]
          ELSE section_hierarchies

\* Lines 237-247: section_hierarchies padded or truncated to len(sections).
AlignedHierarchies ==
  LET n == Len(section_hierarchies)
      m == Len(sections)
  IN IF n # 0 /\ n # m
     THEN IF n < m
          THEN [j \in 1..m |-> IF j <= n THEN section_hierarchies[j]
                               ELSE section_hierarchies[n]]
          ELSE SubSeq(section_hierarchies, 1, m)
     ELSE IF n = 0 /\ m # 0
          THEN [j \in 1..m |-> <<>>]
          ELSE section_hierarchies

SecondPassEnd ==
  /\ pc = "pass2"
  /\ i > Len(text)
  /\ section_hierarchies' = AlignedHierarchies
  /\ idx' = 1
  /\ chunks' = <<>>
  /\ origin' = <<>>
  /\ pc' = "chunk"
  /\ UNCHANGED <<instance_vars, ingest_vars, split_vars, scan_vars, prep_vars>>

\* ------------------------------------------------ parse_document, chunking
\* section_hierarchies[idx] if idx < len(section_hierarchies) else []
HierarchyOf(j) ==
  IF j <= Len(section_hierarchies) THEN section_hierarchies[j] ELSE <<>>

\* Mutant of ChunkSection: the section's chunks are put in front of the list.
ChunkSectionPrepend ==
  /\ pc = "chunk"
  /\ idx <= Len(sections)
  /\ LET new == SectionChunks(Self, sections[idx], HierarchyOf(idx))
     IN /\ chunks' = new \o chunks
        /\ origin' = [j \in 1..Len(new) |-> idx] \o origin
  /\ idx' = idx + 1
  /\ UNCHANGED <<pc, instance_vars, ingest_vars, split_vars, scan_vars, hier_vars, prep_vars>>

\* One iteration of the loop at line 249.
ChunkSection ==
  /\ pc = "chunk"
  /\ idx <= Len(sections)
  /\ LET new == SectionChunks(Self, sections[idx], HierarchyOf(idx))
     IN /\ chunks' = chunks \o new
        /\ origin' = origin \o [j \in 1..Len(new) |-> idx]
  /\ idx' = idx + 1
  /\ UNCHANGED <<pc, instance_vars, ingest_vars, split_vars, scan_vars, hier_vars, prep_vars>>

\* return chunks
ParseReturn ==
  /\ pc = "chunk"
  /\ idx > Len(sections)
  /\ pc' = "parsed"
  /\ UNCHANGED <<instance_vars, ingest_vars, split_vars, scan_vars, hier_vars, chunk_vars, prep_vars>>

\* ---------------------------------------------------- prepare_for_chromadb
get_searchable_text(ch) ==
  LET hierarchy_str == Join(<<" ", "|", " ">>, ch.hierarchy)
      citation == Strip(ch.section_number \o <<".", " ">> \o ch.section_title)
      preamble == hierarchy_str \o <<" ", "|", "|", " ">> \o citation
  IN trim_whitespace(preamble \o <<"\n">> \o ch.content)

\* Mutant of BaseId: the subsection is left out of the base.
BaseIdNoSubsection(ch) == ch.section_number

\* ch.section_number if not ch.subsection else section_number_subsection
BaseId(ch) ==
  IF Falsy(ch.subsection) THEN ch.section_number
  ELSE ch.section_number \o <<"_">> \o ch.subsection

\* base_id_counts.get(base_id, 0)
CountOf(counts, base_id) ==
  IF base_id \in DOMAIN counts THEN counts[base_id] ELSE 0

\* Mutant of UniqueId: the counter suffix is never added.
UniqueIdNoSuffix(base_id, n) == base_id

\* base_id if idx == 0 else f"{base_id}#{idx}"
UniqueId(base_id, n) ==
  IF n = 0 THEN base_id ELSE base_id \o <<"#">> \o IntStr(n)

\* Mutant of Metadata: the subsection is stored as it is, None included.
MetadataKeepsNone(ch, n) ==
  [section_number |-> ch.section_number,
   section_title |-> ch.section_title,
   subsection |-> ch.subsection,
   hierarchy |-> IF ch.hierarchy # <<>>
                 THEN Join(<<" ", "|", " ">>, ch.hierarchy) ELSE <<>>,
   full_citation |-> ch.full_citation,
   token_count |-> ch.token_count,
   chunk_index |-> n]

\* Lines 429-439: the metadata dict of chunk ch, the idx-th of its base.
Metadata(ch, n) ==
  [section_number |-> ch.section_number,
   section_title |-> ch.section_title,
   subsection |-> IF ch.subsection = None THEN <<>> ELSE ch.subsection,
   hierarchy |-> IF ch.hierarchy # <<>>
                 THEN Join(<<" ", "|", " ">>, ch.hierarchy) ELSE <<>>,
   full_citation |-> ch.full_citation,
   token_count |-> ch.token_count,
   chunk_index |-> n]

\* Lines 412-417.
PrepareStart ==
  /\ pc = "parsed"
  /\ documents' = <<>> /\ metadatas' = <<>> /\ ids' = <<>>
  /\ base_id_counts' = EmptyDict
  /\ k' = 1
  /\ pc' = "prepare"
  /\ UNCHANGED <<instance_vars, ingest_vars, split_vars, scan_vars, hier_vars, chunk_vars>>

\* One iteration of the loop at line 419.
PrepareChunk ==
  /\ pc = "prepare"
  /\ k <= Len(chunks)
  /\ LET ch == chunks[k]
         base_id == BaseId(ch)
         n == CountOf(base_id_counts, base_id)
     IN /\ documents' = Append(documents, get_searchable_text(ch))
        /\ base_id_counts' =
             [b \in DOMAIN base_id_counts \cup {base_id} |->
                IF b = base_id THEN n + 1 ELSE base_id_counts[b]]
        /\ metadatas' = Append(metadatas, Metadata(ch, n))
        /\ ids' = Append(ids, UniqueId(base_id, n))
  /\ k' = k + 1
  /\ UNCHANGED <<pc, instance_vars, ingest_vars, split_vars, scan_vars, hier_vars, chunk_vars>>

\* return documents, metadatas, ids
PrepareReturn ==
  /\ pc = "prepare"
  /\ k > Len(chunks)
  /\ pc' = "done"
  /\ UNCHANGED <<instance_vars, ingest_vars, split_vars, scan_vars, hier_vars, chunk_vars, prep_vars>>

\* ------------------------------------------------------------ specification
Next ==
  \/ Construct
  \/ ParseStart
  \/ FirstPassEditorsNote
  \/ FirstPassTitle
  \/ FirstPassArticle
  \/ FirstPassPart
  \/ FirstPassSectionStart
  \/ FirstPassContent
  \/ FirstPassEnd
  \/ SecondPassTitle
  \/ SecondPassArticle
  \/ SecondPassPart
  \/ SecondPassSectionStart
  \/ SecondPassOther
  \/ SecondPassEnd
  \/ ChunkSection
  \/ ParseReturn
  \/ PrepareStart
  \/ PrepareChunk
  \/ PrepareReturn

Spec == Init /\ [][Next]_vars

\* ------------------------------------------------------------------ claims
\* The chunks of section j (1-based position in sections), in emission order.
ChunksOf(j) ==
  LET at == SelectSeq([m \in 1..Len(chunks) |-> m], LAMBDA m : origin[m] = j)
  IN [m \in 1..Len(at) |-> chunks[at[m]]]

\* parse_document has returned.
Parsed == pc \in {"parsed", "prepare", "done"}

\* C1: every chunk parse_document returns has a token estimate of at most
\* max_tokens, whichever path produced it.
C1_BoundInvariant ==
  \A j \in 1..Len(chunks) :
    estimate_tokens(chunks[j].content) <= Self.max_tokens

\* C2: with bounds (50, 800), the header lines TITLE 17 / ARTICLE 1 / PART 1
\* followed by the single section line give exactly 2 chunks, subsections (1)
\* and (2), both with hierarchy [TITLE 17, ARTICLE 1, PART 1].
C2_SectionLineTextIsChunked ==
  (Parsed /\ text = Scenario1Text /\ init_args = <<MIN_TOKENS, MAX_TOKENS>>) =>
    /\ Len(chunks) = 2
    /\ chunks[1].subsection = <<"(", "1", ")">>
    /\ chunks[2].subsection = <<"(", "2", ")">>
    /\ \A j \in 1..2 : chunks[j].hierarchy = <<LineTitle, LineArticle, LinePart>>

\* A single fused pass over the lines from index n on: it keeps the three
\* hierarchy slots, snapshots them when a section opens, and emits the
\* snapshot when the section closes with at least one buffered line.  st is
\* [title, article, part, open, snap, buffered].
RECURSIVE FusedPass(_, _, _)
FusedPass(lines, n, st) ==
  LET flushed == IF st.open /\ st.buffered THEN <<st.snap>> ELSE <<>>
      closed == [st EXCEPT !.open = FALSE, !.buffered = FALSE]
  IN IF n > Len(lines) THEN flushed
     ELSE LET line == RStrip(lines[n])
          IN IF EDITORS_NOTE_RE(line) THEN FusedPass(lines, n + 1, st)
             ELSE IF TITLE_RE(line) # None
             THEN flushed \o FusedPass(lines, n + 1,
                    [closed EXCEPT !.title = <<"T","I","T","L","E"," ">> \o TITLE_RE(line),
                                   !.article = None, !.part = None])
             ELSE IF ARTICLE_RE(line) # None
             THEN flushed \o FusedPass(lines, n + 1,
                    [closed EXCEPT !.article =
                                     <<"A","R","T","I","C","L","E"," ">> \o ARTICLE_RE(line),
                                   !.part = None])
             ELSE IF PART_RE(line) # None
             THEN flushed \o FusedPass(lines, n + 1,
                    [closed EXCEPT !.part = <<"P","A","R","T"," ">> \o PART_RE(line)])
             ELSE IF SECTION_START_RE(line) # NoMatch
             THEN flushed \o FusedPass(lines, n + 1,
                    [st EXCEPT !.open = TRUE, !.buffered = FALSE,
                               !.snap = SelectSeq(<<st.title, st.article, st.part>>,
                                                  LAMBDA h : h # None)])
             ELSE FusedPass(lines, n + 1,
                    [st EXCEPT !.buffered = st.buffered \/ st.open])

\* The snapshots a fused pass attaches to the emitted sections of the
\* document, in order.
FusedHierarchies ==
  FusedPass(text, 1, [title |-> None, article |-> None, part |-> None,
                      open |-> FALSE, snap |-> <<>>, buffered |-> FALSE])

\* C3: the hierarchy of every chunk is the snapshot a fused pass takes at the
\* section-start line of the chunk's own section.
C3_TwoPassesAgreeWithFusedPass ==
  Parsed =>
    \A j \in 1..Len(chunks) : chunks[j].hierarchy = FusedHierarchies[origin[j]]

\* s without its whitespace.
NoWs(s) == SelectSeq(s, LAMBDA c : c \notin WS)

\* s without the characters of its subsection markers (a chunk carries the
\* marker of its unit in its subsection field, not in its body).
NoMarkers(s) ==
  LET starts == SubsectionMatches(s)
      inMark(p) == \E m \in 1..Len(starts) :
                     starts[m] <= p /\ p < MarkEnd(s, starts[m])
      kept == SelectSeq(Positions(s), LAMBDA p : ~inMark(p))
  IN [j \in 1..Len(kept) |-> s[kept[j]]]

\* C4: for every emitted section, the bodies of its chunks, concatenated in
\* emission order, hold the characters of the section's content lines, up to
\* whitespace (and up to the markers, which the subsection fields hold).
C4_SectionContentConserved ==
  Parsed =>
    \A j \in 1..Len(sections) :
      NoWs(Flatten([m \in 1..Len(ChunksOf(j)) |-> NoMarkers(ChunksOf(j)[m].content)]))
        = NoWs(NoMarkers(SectionText(sections[j][3])))

\* A unit that is a whole section (fewer than 2 markers), holds no sentence
\* punctuation and is estimated above max_tokens.
UnpunctuatedOversized(j) ==
  LET body == SectionText(sections[j][3])
  IN /\ Len(SubsectionMatches(body)) < 2
     /\ \A p \in 1..Len(body) : body[p] \notin SENTENCE_PUNCT
     /\ estimate_tokens(body) > Self.max_tokens

\* C5: a unit body without sentence punctuation whose estimate exceeds
\* max_tokens is cut into pieces of max_tokens*4 characters: no chunk is
\* longer, only the last may be shorter, none is empty.
C5_UnpunctuatedBodyIsHardSliced ==
  Parsed =>
    \A j \in 1..Len(sections) :
      UnpunctuatedOversized(j) =>
        LET cs == ChunksOf(j)
        IN \A m \in 1..Len(cs) :
             /\ Len(cs[m].content) >= 1
             /\ Len(cs[m].content) <= Self.max_tokens * CHARS_PER_TOKEN
             /\ m < Len(cs) =>
                  Len(cs[m].content) = Self.max_tokens * CHARS_PER_TOKEN

\* C6: the identifiers one prepare_for_chromadb call returns for the chunks
\* of parse_document are pairwise distinct.
C6_IdentifiersDistinct ==
  \A a, b \in 1..Len(ids) : a # b => ids[a] # ids[b]

\* A prepare call has returned for chunks of which two share a base.
C6_Witness ==
  /\ pc = "done"
  /\ \E a, b \in 1..Len(chunks) :
       /\ a < b
       /\ chunks[a].section_number = chunks[b].section_number
       /\ chunks[a].subsection = chunks[b].subsection
  /\ Len(ids) = Len(chunks)

\* The base identifier the claim gives a chunk.
ClaimedBase(ch) ==
  IF ch.subsection = None THEN ch.section_number
  ELSE ch.section_number \o <<"_">> \o ch.subsection

\* The number of chunks before chunk j, in emission order, with its base.
RankInBase(j) ==
  Cardinality({m \in 1..(j - 1) : ClaimedBase(chunks[m]) = ClaimedBase(chunks[j])})

\* C7: the k-th chunk (k = 0, 1, ...) in emission order that shares a base
\* gets the identifier base when k = 0 and base#k when k > 0, the base being
\* section_number, or section_number_subsection when there is a subsection.
C7_IdentifierScheme ==
  \A j \in 1..Len(ids) :
    ids[j] = IF RankInBase(j) = 0 THEN ClaimedBase(chunks[j])
             ELSE ClaimedBase(chunks[j]) \o <<"#">> \o IntStr(RankInBase(j))

\* Two chunks with base 17-1-101 were given 17-1-101 and 17-1-101#1.
C7_Witness ==
  /\ pc = "done"
  /\ Len(ids) >= 2
  /\ ids[1] = <<"1","7","-","1","-","1","0","1">>
  /\ ids[2] = <<"1","7","-","1","-","1","0","1","#","1">>

\* C8: __init__ raises exactly when min_tokens <= 0, max_tokens <= 0 or
\* min_tokens >= max_tokens; then no chunker exists and no document is
\* processed; every other pair constructs a chunker with those bounds.
C8_ConstructorValidation ==
  init_args # <<>> =>
    LET min_tokens == init_args[1]
        max_tokens == init_args[2]
        bad == min_tokens <= 0 \/ max_tokens <= 0 \/ min_tokens >= max_tokens
    IN /\ (pc = "error") <=> bad
       /\ bad => chunker = <<>> /\ text = <<>> /\ chunks = <<>> /\ ids = <<>>
       /\ ~bad => chunker = <<[min_tokens |-> min_tokens, max_tokens |-> max_tokens]>>

\* The constructor was called with min 100, max 50 and raised.
C8_Witness == pc = "error" /\ init_args = <<100, 50>>

\* The least index q >= p at which pat occurs in t, 0 when there is none.
FindFrom(t, pat, p) ==
  LET hits == SelectSeq(Positions(t), LAMBDA q : /\ q >= p
                                    /\ q + Len(pat) - 1 <= Len(t)
                                    /\ SubSeq(t, q, q + Len(pat) - 1) = pat)
  IN IF hits = <<>> THEN 0 ELSE hits[1]

\* The chunks from index m on can be laid over the sections from section j,
\* position p on, in order and without overlap: each chunk body occurs in the
\* text of a section with the chunk's number and title, at or after the end
\* of the chunk before it, and never in an earlier section than that chunk.
RECURSIVE InReadingOrder(_, _, _)
InReadingOrder(m, j, p) ==
  IF m > Len(chunks) THEN TRUE
  ELSE IF j > Len(sections) THEN FALSE
  ELSE LET c == chunks[m]
           q == FindFrom(SectionText(sections[j][3]), c.content, p)
       IN IF /\ c.section_number = sections[j][1]
             /\ c.section_title = sections[j][2]
             /\ q > 0
          THEN InReadingOrder(m + 1, j, q + Len(c.content))
          ELSE InReadingOrder(m, j + 1, 1)

\* C9: the chunks are in document reading order: by section, inside a section
\* by span, inside a unit by split piece.
C9_ReadingOrder == Parsed => InReadingOrder(1, 1, 1)

\* Two sections were chunked, the first into spans with different markers,
\* the second into several split pieces of one unit.
C9_Witness ==
  /\ pc = "parsed"
  /\ Len(sections) = 2
  /\ \E a, b \in 1..Len(chunks) :
       a < b /\ origin[a] = 1 /\ origin[b] = 1
       /\ chunks[a].subsection # chunks[b].subsection
  /\ \E a, b \in 1..Len(chunks) :
       a < b /\ origin[a] = 2 /\ origin[b] = 2
       /\ chunks[a].subsection = chunks[b].subsection

\* s ends with t.
EndsWith(s, t) ==
  Len(t) <= Len(s) /\ SubSeq(s, Len(s) - Len(t) + 1, Len(s)) = t

\* s starts with t.
StartsWith(s, t) == Len(t) <= Len(s) /\ SubSeq(s, 1, Len(t)) = t

\* No value of the metadata dict md is None: the text fields hold text and
\* the two counters hold integers.
NoNullValue(md) ==
  /\ \A f \in {"section_number", "section_title", "subsection", "hierarchy",
                "full_citation"} : md[f] # None
  /\ md.token_count \in Nat
  /\ md.chunk_index \in Nat

\* C11: prepare_for_chromadb builds three lists that grow together, one entry
\* per chunk and in the chunks' order, so that on return each has as many
\* entries as there are chunks; entry j is derived from chunk j (the document
\* ends with the chunk's body, the metadata carries the chunk's number, title,
\* citation and token count, the identifier starts with the chunk's number);
\* no metadata value is None, and a chunk without subsection stores the
\* empty string under subsection.
C11_ParallelListsWithoutNull ==
  /\ Len(documents) = Len(metadatas) /\ Len(metadatas) = Len(ids)
  /\ pc = "prepare" => Len(ids) = k - 1
  /\ pc = "done" => Len(ids) = Len(chunks)
  /\ \A j \in 1..Len(ids) :
       /\ EndsWith(documents[j], chunks[j].content)
       /\ metadatas[j].section_number = chunks[j].section_number
       /\ metadatas[j].section_title = chunks[j].section_title
       /\ metadatas[j].full_citation = chunks[j].full_citation
       /\ metadatas[j].token_count = chunks[j].token_count
       /\ StartsWith(ids[j], chunks[j].section_number)
       /\ NoNullValue(metadatas[j])
       /\ chunks[j].subsection = None => metadatas[j].subsection = <<>>
       /\ chunks[j].subsection # None =>
            metadatas[j].subsection = chunks[j].subsection

\* A prepare call has returned for several chunks, one without subsection
\* and one with.
C11_Witness ==
  /\ pc = "done"
  /\ Len(chunks) >= 2
  /\ Len(metadatas) = Len(chunks)
  /\ \E a, b \in 1..Len(chunks) :
       chunks[a].subsection = None /\ chunks[b].subsection # None

\* The search text the claim gives chunk ch.
ClaimedSearchText(ch) ==
  Join(<<" ", "|", " ">>, ch.hierarchy) \o <<" ", "|", "|", " ">>
    \o ch.full_citation \o <<"\n">> \o ch.content

\* C12: the search text of a chunk is exactly the hierarchy labels joined
\* with " | ", then " || ", then the citation, then a newline character, then
\* the chunk body: the newline is present in the returned string.
C12_SearchTextKeepsNewline ==
  \A j \in 1..Len(documents) : documents[j] = ClaimedSearchText(chunks[j])

\* No line of the document being parsed matches the section-start pattern.
NoSectionStart ==
  \A n \in 1..Len(text) : SECTION_START_RE(RStrip(text[n])) = NoMatch

\* parse_document has been called on the document.
Parsing == pc \in {"pass1", "pass2", "chunk", "parsed", "prepare", "done"}

\* C13: on a text in which no line matches the section-start pattern, with
\* or without header lines, parse_document opens no section, collects no
\* section block and no snapshot, raises no error and returns no chunk, and
\* prepare_for_chromadb on its result returns three empty lists.
C13_NoSectionNoChunk ==
  (Parsing /\ NoSectionStart) =>
    /\ buffer_section_number = None /\ buffer_lines = <<>>
    /\ sections = <<>> /\ section_hierarchies = <<>>
    /\ chunks = <<>>
    /\ documents = <<>> /\ metadatas = <<>> /\ ids = <<>>

\* Both calls have returned for a text of header lines and content lines
\* without any section-start line.
C13_Witness ==
  /\ pc = "done"
  /\ NoSectionStart
  /\ \E a, b \in 1..Len(text) :
       ~NoHeader(RStrip(text[a])) /\ NoHeader(RStrip(text[b]))
  /\ chunks = <<>> /\ ids = <<>>

\* Line n of the document, right-stripped as both passes read it.
LineAt(n) == RStrip(text[n])

\* Line n closes the open section: a header line or a section-start line.
IsBoundary(n) ==
  ~NoHeader(LineAt(n)) \/ SECTION_START_RE(LineAt(n)) # NoMatch

\* The index of the first boundary line after line n, Len(text) + 1 if none.
NextBoundary(n) ==
  LET later == SelectSeq(Positions(text), LAMBDA m : m > n /\ IsBoundary(m))
  IN IF later = <<>> THEN Len(text) + 1 ELSE later[1]

\* The content lines of the section that starts at line n: the lines up to
\* the next boundary, editor's notes left out.
ContentLinesAfter(n) ==
  LET next == NextBoundary(n)
  IN SelectSeq(Positions(text), LAMBDA m : /\ m > n /\ m < next
                                            /\ ~EDITORS_NOTE_RE(LineAt(m)))

\* The indices of the section-start lines, and of those with a content line.
SectionStarts ==
  SelectSeq(Positions(text), LAMBDA n : /\ NoHeader(LineAt(n))
                                         /\ SECTION_START_RE(LineAt(n)) # NoMatch)
NonEmptyStarts ==
  SelectSeq(SectionStarts, LAMBDA n : ContentLinesAfter(n) # <<>>)

\* C14: when the first pass ends, the section blocks are exactly the
\* section-start lines followed by at least one content line before the next
\* header line, section-start line or end of input, in order and each with
\* those lines: a section-start line without content line gives no block;
\* and every chunk belongs to a block with at least one buffered line and
\* carries its number.
C14_EmptySectionDiscarded ==
  /\ (pc = "pass2" /\ i = 1) =>
       LET starts == NonEmptyStarts
       IN /\ Len(sections) = Len(starts)
          /\ \A j \in 1..Len(sections) :
               LET content == ContentLinesAfter(starts[j])
               IN /\ sections[j][1] = SECTION_START_RE(LineAt(starts[j]))[1]
                  /\ sections[j][3] =
                       [m \in 1..Len(content) |-> LineAt(content[m])]
                  /\ sections[j][3] # <<>>
  /\ pc \in {"chunk", "parsed"} =>
       \A c \in 1..Len(chunks) :
         /\ origin[c] \in 1..Len(sections)
         /\ sections[origin[c]][3] # <<>>
         /\ chunks[c].section_number = sections[origin[c]][1]

\* parse_document has returned chunks for a document in which a
\* section-start line is closed by a header line before any content line,
\* and a later section has content.
C14_Witness ==
  /\ pc = "parsed"
  /\ chunks # <<>>
  /\ \E a \in 1..Len(text) :
       /\ SECTION_START_RE(LineAt(a)) # NoMatch
       /\ ContentLinesAfter(a) = <<>>
       /\ NextBoundary(a) <= Len(text)
       /\ ~NoHeader(LineAt(NextBoundary(a)))

\* ------------------------------------------- directory ingestion endpoint
\* ingest_legal_directory of api/rest_api.py, one target collection.  A file
\* content stands for the bytes of a PDF: "empty" has no extractable text,
\* "plain" has text without any section, "act" is a statute with one section
\* of two subsections, "broken" is not a readable PDF.
\* Most requests one behaviour receives.
MaxRequests == 3
\* Most file rewrites one behaviour holds.
MaxEdits == 1
Paths == <<"a.pdf", "b.pdf">>
Contents == {"empty", "plain", "act", "broken"}

\* sha256_of_file(path): distinct contents have distinct digests.
sha256_of_file(path) == <<"sha256", disk[path]>>

\* file_hash[:12]
HashPrefix(file_hash) == <<"sha256[:12]", file_hash[2]>>

\* PdfReader(str(fpath)) raises on this content.
ReaderRaises(content) == content = "broken"

\* "\n\n".join(pages_text).strip() is not empty.
HasFullText(content) == content \in {"plain", "act"}

\* The ids prepare_for_chromadb returns for the chunks parse_document makes
\* of the content's text: none without a section, one per subsection.
PreparedIds(content) ==
  IF content = "act" THEN <<"17-1-101_(1)", "17-1-101_(2)">> ELSE <<>>

\* collection.get(where={"file_sha256": file_hash}, limit=1)["ids"], as a set.
ExistingIds(file_hash) ==
  {d.id : d \in {e \in collection : e.file_sha256 = file_hash}}

\* Lines 291-302: the documents of one file as handed to add_documents, with
\* the prefixed ids and the enriched metadata.
FileDocuments(path) ==
  LET file_hash == sha256_of_file(path)
      prepared == PreparedIds(disk[path])
  IN {[id |-> <<HashPrefix(file_hash), n - 1, prepared[n]>>,
       file_name |-> path,
       file_sha256 |-> file_hash] : n \in 1..Len(prepared)}

\* collection.add(...): documents whose id the collection holds are left as
\* they are, the others are added.
AddedTo(coll, docs) ==
  coll \cup {d \in docs : \A e \in coll : e.id # d.id}

\* The paths of the data directory, in listing order.
Gathered == SelectSeq(Paths, LAMBDA path : path \in DOMAIN disk)

\* The directories the endpoint can find: every subset of Paths, every
\* content for each path.
Disks ==
  UNION {[S -> Contents] : S \in SUBSET {Paths[n] : n \in 1..Len(Paths)}}

DirInit ==
  /\ ChunkerIdle
  /\ PdfIdle
  /\ dir_pc = "idle"
  /\ disk \in Disks
  /\ collection = {}
  /\ skip_on_duplicate = TRUE
  /\ files = <<>>
  /\ fidx = 1
  /\ scanned = 0 /\ ingested = 0 /\ skipped = 0
  /\ per_file_results = <<>>
  /\ requests = 0
  /\ edits = 0
  /\ trace = <<>>
  /\ stable = FALSE /\ rerun = FALSE
  /\ coll_at_start = {}

chunker_vars ==
  <<pc, instance_vars, scan_vars, hier_vars, chunk_vars, prep_vars, split_vars>>
not_dir_vars == <<chunker_vars, pdf_vars>>

\* Lines 203-247: a request arrives, the files are gathered.
DirRequest ==
  /\ dir_pc \in {"idle", "returned"}
  /\ requests < MaxRequests
  /\ requests' = requests + 1
  /\ \E skip \in BOOLEAN : skip_on_duplicate' = skip
  /\ files' = Gathered
  /\ fidx' = 1
  /\ scanned' = 0 /\ ingested' = 0 /\ skipped' = 0
  /\ per_file_results' = <<>>
  /\ trace' = <<>>
  /\ rerun' = stable
  /\ coll_at_start' = collection
  /\ IF Gathered = <<>>
     THEN dir_pc' = "returned" /\ stable' = TRUE
     ELSE dir_pc' = "loop" /\ stable' = stable
  /\ UNCHANGED <<disk, collection, edits, not_dir_vars>>

\* The loop at line 249 is at a file.
InDirLoop == dir_pc = "loop" /\ fidx <= Len(files)
fpath == files[fidx]
file_hash == sha256_of_file(fpath)

\* Mutant of IsDuplicate: the collection is asked for the file's name
\* instead of its hash.
IsDuplicateByName ==
  skip_on_duplicate /\ \E d \in collection : d.file_name = fpath

\* The idempotency check of lines 255-264 skips the file.
IsDuplicate == skip_on_duplicate /\ ExistingIds(file_hash) # {}

\* What every iteration does: count the file, append its result, move on.
DirStep(result, add_called) ==
  /\ scanned' = scanned + 1
  /\ per_file_results' = Append(per_file_results, result)
  /\ trace' = Append(trace, [held |-> \E d \in collection :
                                        d.file_sha256 = file_hash,
                             add_called |-> add_called])
  /\ fidx' = fidx + 1
  /\ UNCHANGED <<dir_pc, disk, skip_on_duplicate, files, requests, edits,
                 stable, rerun, coll_at_start, not_dir_vars>>

\* Lines 257-264: the collection holds a document with the file's hash.
DirSkipDuplicate ==
  /\ InDirLoop
  /\ IsDuplicate
  /\ skipped' = skipped + 1
  /\ DirStep([file |-> fpath, status |-> "skipped", reason |-> "duplicate",
              file_sha256 |-> file_hash], FALSE)
  /\ UNCHANGED <<ingested, collection>>

\* Lines 267 and 318-324: the reader raises, the handler records the error.
DirReadFails ==
  /\ InDirLoop
  /\ ~IsDuplicate
  /\ ReaderRaises(disk[fpath])
  /\ skipped' = skipped + 1
  /\ DirStep([file |-> fpath, status |-> "error", error |-> "reader"], FALSE)
  /\ UNCHANGED <<ingested, collection>>

\* Lines 276-283: the file has no text.
DirSkipNoText ==
  /\ InDirLoop
  /\ ~IsDuplicate
  /\ ~ReaderRaises(disk[fpath])
  /\ ~HasFullText(disk[fpath])
  /\ skipped' = skipped + 1
  /\ DirStep([file |-> fpath, status |-> "skipped", reason |-> "no_text"], FALSE)
  /\ UNCHANGED <<ingested, collection>>

\* Lines 285-289 and 311-317: the text gives no chunk.
DirSkipNoChunks ==
  /\ InDirLoop
  /\ ~IsDuplicate
  /\ ~ReaderRaises(disk[fpath])
  /\ HasFullText(disk[fpath])
  /\ PreparedIds(disk[fpath]) = <<>>
  /\ skipped' = skipped + 1
  /\ DirStep([file |-> fpath, status |-> "skipped", reason |-> "no_chunks"], FALSE)
  /\ UNCHANGED <<ingested, collection>>

\* The file reaches add_documents (line 304).
Ingestible ==
  /\ InDirLoop
  /\ ~IsDuplicate
  /\ ~ReaderRaises(disk[fpath])
  /\ HasFullText(disk[fpath])
  /\ PreparedIds(disk[fpath]) # <<>>

\* Lines 304-316: add_documents returns.
DirIngest ==
  /\ Ingestible
  /\ collection' = AddedTo(collection, FileDocuments(fpath))
  /\ ingested' = ingested + 1
  /\ DirStep([file |-> fpath, status |-> "ingested",
              chunks |-> Len(PreparedIds(disk[fpath])),
              file_sha256 |-> file_hash], TRUE)
  /\ UNCHANGED skipped

\* Lines 304 and 318-324: add_documents raises (the embedding model or the
\* store fails) and nothing is added.
DirAddFails ==
  /\ Ingestible
  /\ skipped' = skipped + 1
  /\ DirStep([file |-> fpath, status |-> "error", error |-> "add_documents"], TRUE)
  /\ UNCHANGED <<ingested, collection>>

\* Lines 326-334: the summary is returned.
DirReturn ==
  /\ dir_pc = "loop"
  /\ fidx > Len(files)
  /\ dir_pc' = "returned"
  /\ stable' = \A n \in 1..Len(per_file_results) :
                 per_file_results[n].status # "error"
  /\ UNCHANGED <<disk, collection, skip_on_duplicate, files, fidx, scanned,
                 ingested, skipped, per_file_results, requests, edits, trace,
                 rerun, coll_at_start, not_dir_vars>>

\* Between two requests, a file of the data directory is rewritten.
EditFile ==
  /\ dir_pc \in {"idle", "returned"}
  /\ edits < MaxEdits
  /\ edits' = edits + 1
  /\ \E path \in DOMAIN disk : \E content \in Contents \ {disk[path]} :
       disk' = [disk EXCEPT ![path] = content]
  /\ stable' = FALSE
  /\ UNCHANGED <<dir_pc, collection, skip_on_duplicate, files, fidx, scanned,
                 ingested, skipped, per_file_results, requests, trace, rerun,
                 coll_at_start, not_dir_vars>>

DirNext ==
  \/ DirRequest
  \/ DirSkipDuplicate
  \/ DirReadFails
  \/ DirSkipNoText
  \/ DirSkipNoChunks
  \/ DirIngest
  \/ DirAddFails
  \/ DirReturn
  \/ EditFile

DirSpec == DirInit /\ [][DirNext]_vars

MaxRuns == 2
CHUNK_SIZE == 1000
CHUNK_OVERLAP == 200
batch_size == 50
FileNames == <<"a.pdf", "b.pdf">>
PdfContents == {"scan", "short", "long"}

\* len(extract_text_from_pdf(pdf_content))
TextLength(content) ==
  IF content = "short" THEN 500 ELSE IF content = "long" THEN 41000 ELSE 0

\* hashlib.md5(file_content).hexdigest(): distinct contents, distinct digests.
get_file_hash(file_content) == <<"md5", file_content>>

RECURSIVE ChunkLoop(_, _, _)
\* The while loop of chunk_text from start on, n chunks appended so far:
\* the number of chunks in the end.
ChunkLoop(length, start, n) ==
  IF start + CHUNK_SIZE >= length THEN n + 1
  ELSE ChunkLoop(length, start + CHUNK_SIZE - CHUNK_OVERLAP, n + 1)

\* len(chunk_text(text)) for a text of the given length.
chunk_text(length) ==
  IF length <= CHUNK_SIZE THEN 1 ELSE ChunkLoop(length, 0, 0)

\* The buckets the script can find: every subset of FileNames, every content
\* for each name.
Buckets ==
  UNION {[S -> PdfContents] : S \in SUBSET {FileNames[n] : n \in 1..Len(FileNames)}}

PdfInit ==
  /\ ChunkerIdle
  /\ DirIdle
  /\ pdf_pc = "idle"
  /\ storage \in Buckets
  /\ tables = [t \in TableNames |-> <<>>]
  /\ processing_logs = <<>>
  /\ table_name = "legal_document_embeddings"
  /\ pdf_files = <<>>
  /\ findex = 1
  /\ batch_start = 0 /\ success_count = 0
  /\ processed_count = 0 /\ skipped_count = 0
  /\ runs = 0

not_pdf_vars == <<chunker_vars, dir_vars>>

\* Lines 315-335: main() starts; detect_table_schema settles on a table (its
\* probe row is deleted again), the bucket is listed (an error gives no file).
PdfMain ==
  /\ pdf_pc \in {"idle", "done"}
  /\ runs < MaxRuns
  /\ runs' = runs + 1
  /\ \E t \in TableNames : table_name' = t
  /\ \E listed \in BOOLEAN :
       pdf_files' = IF listed
                    THEN SelectSeq(FileNames, LAMBDA f : f \in DOMAIN storage)
                    ELSE <<>>
  /\ findex' = 1
  /\ processed_count' = 0 /\ skipped_count' = 0
  /\ pdf_pc' = IF pdf_files' = <<>> THEN "done" ELSE "check_if_processed"
  /\ UNCHANGED <<storage, tables, processing_logs, batch_start, success_count,
                 not_pdf_vars>>

filename == pdf_files[findex]
pdf_content == storage[filename]

\* The rows of table t whose metadata field has the value.
RowsWith(t, field, value) ==
  SelectSeq(tables[t], LAMBDA row : row[field] = value)

\* process_single_pdf returns (lines 341-344): main() counts the file and
\* goes to the next one.
PdfReturn(result) ==
  /\ processed_count' = IF result THEN processed_count + 1 ELSE processed_count
  /\ skipped_count' = IF result THEN skipped_count ELSE skipped_count + 1
  /\ findex' = findex + 1
  /\ pdf_pc' = IF findex + 1 > Len(pdf_files) THEN "done"
               ELSE "check_if_processed"

\* Lines 44-48 and 270-271: the lookup by file name finds a row.
PdfAlreadyProcessed ==
  /\ pdf_pc = "check_if_processed"
  /\ RowsWith("legal_documents_vectors", "title", filename) # <<>>
  /\ PdfReturn(TRUE)
  /\ UNCHANGED <<storage, tables, processing_logs, table_name, pdf_files,
                 batch_start, success_count, runs, not_pdf_vars>>

\* Lines 50-51: the lookup by file name finds nothing.
PdfNotProcessed ==
  /\ pdf_pc = "check_if_processed"
  /\ RowsWith("legal_documents_vectors", "title", filename) = <<>>
  /\ pdf_pc' = "download_pdf"
  /\ UNCHANGED <<storage, tables, processing_logs, table_name, pdf_files,
                 findex, batch_start, success_count, processed_count,
                 skipped_count, runs, not_pdf_vars>>

\* Lines 53-56: the lookup by file name raises; the file counts as not
\* processed.
PdfCheckRaises ==
  /\ pdf_pc = "check_if_processed"
  /\ pdf_pc' = "download_pdf"
  /\ UNCHANGED <<storage, tables, processing_logs, table_name, pdf_files,
                 findex, batch_start, success_count, processed_count,
                 skipped_count, runs, not_pdf_vars>>

\* Lines 122-124 and 277-279: the download fails.
PdfDownloadFails ==
  /\ pdf_pc = "download_pdf"
  /\ PdfReturn(FALSE)
  /\ UNCHANGED <<storage, tables, processing_logs, table_name, pdf_files,
                 batch_start, success_count, runs, not_pdf_vars>>

\* Lines 120-121 and 282: the file is downloaded and hashed.
PdfDownloaded ==
  /\ pdf_pc = "download_pdf"
  /\ pdf_pc' = "check_content_hash"
  /\ UNCHANGED <<storage, tables, processing_logs, table_name, pdf_files,
                 findex, batch_start, success_count, processed_count,
                 skipped_count, runs, not_pdf_vars>>

\* check_content_hash when the queries on the tables in raising raise: a row
\* with the hash in one of the other tables.
HashFound(raising) ==
  \E t \in TableNames \ raising :
    RowsWith(t, "file_hash", get_file_hash(pdf_content)) # <<>>

\* Lines 97-99 and 285-287: a table answers with a row of the same hash.
PdfHashExists ==
  /\ pdf_pc = "check_content_hash"
  /\ \E raising \in SUBSET TableNames : HashFound(raising)
  /\ PdfReturn(TRUE)
  /\ UNCHANGED <<storage, tables, processing_logs, table_name, pdf_files,
                 batch_start, success_count, runs, not_pdf_vars>>

\* Lines 100-102: no table answers with a row of the same hash, because it
\* holds none or because its query raises.
PdfHashUnknown ==
  /\ pdf_pc = "check_content_hash"
  /\ \E raising \in SUBSET TableNames : ~HashFound(raising)
  /\ pdf_pc' = "extract"
  /\ UNCHANGED <<storage, tables, processing_logs, table_name, pdf_files,
                 findex, batch_start, success_count, processed_count,
                 skipped_count, runs, not_pdf_vars>>

\* Lines 290-293: no text is extracted.
PdfNoText ==
  /\ pdf_pc = "extract"
  /\ TextLength(pdf_content) = 0
  /\ PdfReturn(FALSE)
  /\ UNCHANGED <<storage, tables, processing_logs, table_name, pdf_files,
                 batch_start, success_count, runs, not_pdf_vars>>

\* Lines 298-303 and 205-206: the text is chunked and embedded.
PdfChunked ==
  /\ pdf_pc = "extract"
  /\ TextLength(pdf_content) > 0
  /\ batch_start' = 0
  /\ success_count' = 0
  /\ pdf_pc' = "store"
  /\ UNCHANGED <<storage, tables, processing_logs, table_name, pdf_files,
                 findex, processed_count, skipped_count, runs, not_pdf_vars>>

\* len(chunks) of the file main() is at.
ChunkCount == chunk_text(TextLength(pdf_content))
InStoreLoop == pdf_pc = "store" /\ batch_start < ChunkCount
batch_end == Min(batch_start + batch_size, ChunkCount)

\* Lines 210-239: one batch is inserted.
PdfBatchStored ==
  /\ InStoreLoop
  /\ tables' = [tables EXCEPT ![table_name] =
                  Append(@, [title |-> filename,
                             file_hash |-> get_file_hash(pdf_content),
                             first |-> batch_start,
                             last |-> batch_end - 1])]
  /\ success_count' = success_count + (batch_end - batch_start)
  /\ batch_start' = batch_start + batch_size
  /\ UNCHANGED <<pdf_pc, storage, processing_logs, table_name, pdf_files,
                 findex, processed_count, skipped_count, runs, not_pdf_vars>>

\* Lines 241-242: the insert of one batch raises; the loop goes on.
PdfBatchFails ==
  /\ InStoreLoop
  /\ batch_start' = batch_start + batch_size
  /\ UNCHANGED <<pdf_pc, storage, tables, processing_logs, table_name,
                 pdf_files, findex, success_count, processed_count,
                 skipped_count, runs, not_pdf_vars>>

\* Lines 244-264 and 310-313: the result is logged (the insert of the log row
\* may raise) and process_single_pdf returns True.
PdfLog ==
  /\ pdf_pc = "store"
  /\ batch_start >= ChunkCount
  /\ \E logged \in BOOLEAN :
       processing_logs' =
         IF logged
         THEN Append(processing_logs,
                     [file_name |-> filename,
                      chunks_created |-> success_count,
                      file_hash |-> get_file_hash(pdf_content)])
         ELSE processing_logs
  /\ PdfReturn(TRUE)
  /\ UNCHANGED <<storage, tables, table_name, pdf_files, batch_start,
                 success_count, runs, not_pdf_vars>>

PdfNext ==
  \/ PdfMain
  \/ PdfAlreadyProcessed
  \/ PdfNotProcessed
  \/ PdfCheckRaises
  \/ PdfDownloadFails
  \/ PdfDownloaded
  \/ PdfHashExists
  \/ PdfHashUnknown
  \/ PdfNoText
  \/ PdfChunked
  \/ PdfBatchStored
  \/ PdfBatchFails
  \/ PdfLog

PdfSpec == PdfInit /\ [][PdfNext]_vars

\* The number of batches in table t that hold chunk n of the file with this
\* name and hash.
TimesInserted(t, name, hash, n) ==
  Len(SelectSeq(tables[t], LAMBDA row : /\ row.title = name
                                         /\ row.file_hash = hash
                                         /\ row.first <= n /\ n <= row.last))

\* C16: across any sequence of runs of main(), runs in which a lookup raises
\* or a batch insert fails included, every chunk of a file (same name, same
\* content hash) is inserted into a vector table at most once.
C16_ChunksInsertedAtMostOnce ==
  \A t \in TableNames : \A name \in DOMAIN storage :
    \A n \in 0..(chunk_text(TextLength(storage[name])) - 1) :
      TimesInserted(t, name, get_file_hash(storage[name]), n) <= 1

\* The index of the last line before line n and after line lo that is a
\* header of the given kind, 0 when there is none.  Kind is 1 for TITLE, 2
\* for ARTICLE, 3 for PART; a line is of the first kind whose pattern it
\* matches.
HeaderKind(line) ==
  IF TITLE_RE(line) # None THEN 1
  ELSE IF ARTICLE_RE(line) # None THEN 2
  ELSE IF PART_RE(line) # None THEN 3
  ELSE 0
LastHeader(kind, lo, n) ==
  LET at == SelectSeq(Positions(text),
                      LAMBDA m : lo < m /\ m < n /\ HeaderKind(LineAt(m)) = kind)
  IN IF at = <<>> THEN 0 ELSE at[Len(at)]

\* The three levels in force just before line n: the latest TITLE, the latest
\* ARTICLE since that TITLE, the latest PART since that ARTICLE and TITLE;
\* None for an absent level.
LevelsAt(n) ==
  LET t == LastHeader(1, 0, n)
      a == LastHeader(2, t, n)
      p == LastHeader(3, Max(t, a), n)
  IN <<IF t = 0 THEN None
       ELSE <<"T","I","T","L","E"," ">> \o TITLE_RE(LineAt(t)),
       IF a = 0 THEN None
       ELSE <<"A","R","T","I","C","L","E"," ">> \o ARTICLE_RE(LineAt(a)),
       IF p = 0 THEN None
       ELSE <<"P","A","R","T"," ">> \o PART_RE(LineAt(p))>>

\* The levels in force at line n, absent levels omitted.
ExpectedSnapshot(n) == SelectSeq(LevelsAt(n), LAMBDA h : h # None)

\* C17: while the second pass runs, the three slots hold the latest TITLE
\* label, the latest ARTICLE label since that TITLE and the latest PART label
\* since that ARTICLE and TITLE (a TITLE clears article and part, an ARTICLE
\* clears part, a PART leaves title and article), and the snapshot taken at
\* each section-start line read so far is the list of those levels at that
\* line, absent levels omitted.
C17_SnapshotIsLatestLevels ==
  pc = "pass2" =>
    LET read == SelectSeq(SectionStarts, LAMBDA n : n < i)
    IN /\ <<current_title, current_article, current_part>> = LevelsAt(i)
       /\ Len(section_hierarchies) = Len(read)
       /\ \A j \in 1..Len(read) :
            section_hierarchies[j] = ExpectedSnapshot(read[j])

\* The second pass has read a document in which an ARTICLE and a PART are
\* followed by a TITLE and then a section-start line, whose snapshot holds the
\* TITLE only, and a PART is followed by an ARTICLE.
C17_Witness ==
  /\ pc = "pass2"
  /\ i > Len(text)
  /\ \E n \in 1..Len(text) :
       /\ SECTION_START_RE(LineAt(n)) # NoMatch
       /\ \E a \in 1..n : HeaderKind(LineAt(a)) = 2 /\ a < LastHeader(1, 0, n)
       /\ ExpectedSnapshot(n) = <<LineTitle>>
       /\ section_hierarchies # <<>>
       /\ section_hierarchies[Len(section_hierarchies)] = <<LineTitle>>

\* The lines without those that match the editor's-note pattern.
WithoutNotes(lines) ==
  SelectSeq(lines, LAMBDA raw : ~EDITORS_NOTE_RE(RStrip(raw)))

\* The locals of the first pass after one more line, as a function of the
\* locals st before it.
FirstPassStep(st, line) ==
  LET flushed ==
        [st EXCEPT !.sections =
                     IF st.number # None /\ st.lines # <<>>
                     THEN Append(st.sections, <<st.number, st.title, st.lines>>)
                     ELSE st.sections,
                   !.lines = <<>>, !.number = None, !.title = <<>>]
  IN IF EDITORS_NOTE_RE(line) THEN st
     ELSE IF TITLE_RE(line) # None
     THEN [flushed EXCEPT !.slots[1] = <<"T","I","T","L","E"," ">> \o TITLE_RE(line)]
     ELSE IF ARTICLE_RE(line) # None
     THEN [flushed EXCEPT !.slots[2] =
                            <<"A","R","T","I","C","L","E"," ">> \o ARTICLE_RE(line)]
     ELSE IF PART_RE(line) # None
     THEN [flushed EXCEPT !.slots[3] = <<"P","A","R","T"," ">> \o PART_RE(line)]
     ELSE IF SECTION_START_RE(line) # NoMatch
     THEN [flushed EXCEPT !.number = Strip(SECTION_START_RE(line)[1]),
                          !.title = Strip(SECTION_START_RE(line)[2])]
     ELSE IF st.number # None
     THEN [st EXCEPT !.lines = Append(st.lines, line)]
     ELSE st

\* The locals of the first pass after the first n of the lines.
RECURSIVE FirstPassOf(_, _)
FirstPassOf(lines, n) ==
  IF n = 0
  THEN [slots |-> <<None, None, None>>, number |-> None, title |-> <<>>,
        lines |-> <<>>, sections |-> <<>>]
  ELSE FirstPassStep(FirstPassOf(lines, n - 1), RStrip(lines[n]))

\* The locals of the second pass after one more line.
SecondPassStep(st, line) ==
  IF TITLE_RE(line) # None
  THEN [st EXCEPT !.slots = <<<<"T","I","T","L","E"," ">> \o TITLE_RE(line),
                              None, None>>]
  ELSE IF ARTICLE_RE(line) # None
  THEN [st EXCEPT !.slots[2] =
                    <<"A","R","T","I","C","L","E"," ">> \o ARTICLE_RE(line),
                  !.slots[3] = None]
  ELSE IF PART_RE(line) # None
  THEN [st EXCEPT !.slots[3] = <<"P","A","R","T"," ">> \o PART_RE(line)]
  ELSE IF SECTION_START_RE(line) # NoMatch
  THEN [st EXCEPT !.hierarchies =
                    Append(@, SelectSeq(st.slots, LAMBDA h : h # None))]
  ELSE st

\* The locals of the second pass after the first n of the lines.
RECURSIVE SecondPassOf(_, _)
SecondPassOf(lines, n) ==
  IF n = 0 THEN [slots |-> <<None, None, None>>, hierarchies |-> <<>>]
  ELSE SecondPassStep(SecondPassOf(lines, n - 1), RStrip(lines[n]))

\* The first n of the lines.
Prefix(lines, n) == SubSeq(lines, 1, n)

\* Lines 237-247 for a list of snapshots and a number of sections.
AlignedTo(hierarchies, m) ==
  LET n == Len(hierarchies)
  IN IF n = 0 THEN [j \in 1..m |-> <<>>]
     ELSE IF n < m THEN [j \in 1..m |-> hierarchies[Min(j, n)]]
     ELSE SubSeq(hierarchies, 1, m)

\* The chunks parse_document returns for the lines.
ParseOf(self, lines) ==
  LET last == FirstPassOf(lines, Len(lines))
      secs == IF last.number # None /\ last.lines # <<>>
              THEN Append(last.sections, <<last.number, last.title, last.lines>>)
              ELSE last.sections
      hierarchies ==
        AlignedTo(SecondPassOf(lines, Len(lines)).hierarchies, Len(secs))
  IN Flatten([j \in 1..Len(secs) |-> SectionChunks(self, secs[j], hierarchies[j])])

\* C18: a line matching the editor's-note pattern changes nothing in either
\* pass: after any number of lines, the first pass's slots, open section,
\* buffered lines and section blocks, and the second pass's slots and
\* snapshots, are what they are after the same lines with the editor's notes
\* removed; and the returned chunks are those of the text with every
\* editor's note removed.
C18_EditorsNoteChangesNothing ==
  LET clean == WithoutNotes(Prefix(text, i - 1))
      first == FirstPassOf(clean, Len(clean))
      second == SecondPassOf(clean, Len(clean))
  IN /\ pc = "pass1" =>
          /\ <<current_title, current_article, current_part>> = first.slots
          /\ buffer_section_number = first.number
          /\ buffer_section_title = first.title
          /\ buffer_lines = first.lines
          /\ sections = first.sections
     /\ pc = "pass2" =>
          /\ <<current_title, current_article, current_part>> = second.slots
          /\ section_hierarchies = second.hierarchies
     /\ pc = "parsed" => chunks = ParseOf(Self, WithoutNotes(text))

\* parse_document has returned chunks for a text with an editor's note
\* between two content lines of an open section.
C18_Witness ==
  /\ pc = "parsed"
  /\ chunks # <<>>
  /\ \E n \in 3..(Len(text) - 1) :
       /\ EDITORS_NOTE_RE(LineAt(n))
       /\ ContentLinesAfter(n - 2) = <<n - 1, n + 1>>
       /\ SECTION_START_RE(LineAt(n - 2)) # NoMatch
       /\ LineAt(n - 1) # <<>> /\ LineAt(n + 1) # <<>>

\* The index of the last boundary line before line n, 0 when there is none.
LastBoundary(n) ==
  LET earlier == SelectSeq(Positions(text), LAMBDA m : m < n /\ IsBoundary(m))
  IN IF earlier = <<>> THEN 0 ELSE earlier[Len(earlier)]

\* A section is open just before line n: the last boundary line before it is
\* a section-start line, not a header line.
OpenAt(n) ==
  LET b == LastBoundary(n)
  IN b > 0 /\ NoHeader(LineAt(b))

\* The lines that belong to a section: the content lines read while a
\* section is open.
LinesInSections ==
  SelectSeq(Positions(text), LAMBDA m : /\ ~IsBoundary(m)
                                         /\ ~EDITORS_NOTE_RE(LineAt(m))
                                         /\ OpenAt(m))

\* C19: during the first pass a section is open exactly when the last
\* header or section-start line read is a section-start line, so a TITLE,
\* ARTICLE or PART header leaves no section open and the lines from it to the
\* next section-start line, like those before the first section-start line,
\* are buffered nowhere; the buffer holds exactly the content lines read
\* since the open section's start; and when the pass ends, the blocks hold
\* exactly the content lines read while a section was open, in order.
C19_HeaderClosesSection ==
  /\ pc = "pass1" =>
       LET b == LastBoundary(i)
           since == SelectSeq(Positions(text),
                              LAMBDA m : /\ b < m /\ m < i
                                         /\ ~EDITORS_NOTE_RE(LineAt(m)))
       IN /\ (buffer_section_number # None) <=> OpenAt(i)
          /\ buffer_lines = IF OpenAt(i)
                            THEN [m \in 1..Len(since) |-> LineAt(since[m])]
                            ELSE <<>>
  /\ (pc = "pass2" /\ i = 1) =>
       Flatten([j \in 1..Len(sections) |-> sections[j][3]])
         = [m \in 1..Len(LinesInSections) |-> LineAt(LinesInSections[m])]

\* The first pass has ended on a text in which a header line was read while
\* a section with a buffered line was open, and a content line that follows
\* the header belongs to no section.
C19_Witness ==
  /\ pc = "pass2" /\ i = 1
  /\ sections # <<>>
  /\ \E h \in 3..(Len(text) - 1) :
       /\ ~NoHeader(LineAt(h))
       /\ OpenAt(h)
       /\ LastBoundary(h) < h - 1
       /\ ~IsBoundary(h + 1)
       /\ LineAt(h + 1) # <<>>
       /\ Len(Flatten([j \in 1..Len(sections) |-> sections[j][3]])) < Len(text) - 2

\* The line is one or more whitespace characters followed by text that
\* matches the section-start pattern.
IndentedSectionStart(line) ==
  /\ line # <<>>
  /\ line[1] \in WS
  /\ SECTION_START_RE(Strip(line)) # NoMatch

\* C20: leading whitespace is tolerated on section-start lines: when the
\* first pass has just read a line of spaces followed by a section identifier
\* and title, the section that was open is closed and a section with that
\* identifier and title is open with nothing buffered, as after the same line
\* without its leading spaces.
C20_IndentedSectionStartOpensSection ==
  (pc = "pass1" /\ i > 1 /\ IndentedSectionStart(LineAt(i - 1))) =>
    /\ buffer_section_number = SECTION_START_RE(Strip(LineAt(i - 1)))[1]
    /\ buffer_section_title = SECTION_START_RE(Strip(LineAt(i - 1)))[2]
    /\ buffer_lines = <<>>

\* The bodies of the chunks cs, in order.
Bodies(cs) == [m \in 1..Len(cs) |-> cs[m].content]

\* The number of subsection markers in the bodies of the chunks cs.
RECURSIVE MarkersIn(_)
MarkersIn(cs) ==
  IF cs = <<>> THEN 0
  ELSE Len(SubsectionMatches(cs[1].content)) + MarkersIn(Tail(cs))

\* C21: a section whose normalized text holds fewer than two subsection
\* markers is one unmarked unit: every chunk of the section has subsection
\* None, a lone marker is still in the body of a chunk, and when the estimate
\* of the text is at most max_tokens the section gives exactly one chunk,
\* whose body is the text.
C21_FewMarkersOneUnit ==
  pc = "parsed" =>
    \A j \in 1..Len(sections) :
      LET body == SectionText(sections[j][3])
          marks == SubsectionMatches(body)
          cs == ChunksOf(j)
      IN (body # <<>> /\ Len(marks) < 2) =>
           /\ \A m \in 1..Len(cs) : cs[m].subsection = None
           /\ MarkersIn(cs) = Len(marks)
           /\ estimate_tokens(body) <= Self.max_tokens =>
                Len(cs) = 1 /\ cs[1].content = body

\* parse_document returned for two sections: one holds a single marker and
\* fits max_tokens (one chunk), the other holds no marker and does not fit
\* (several chunks).
C21_Witness ==
  /\ pc = "parsed"
  /\ \E j \in 1..Len(sections) :
       /\ Len(SubsectionMatches(SectionText(sections[j][3]))) = 1
       /\ estimate_tokens(SectionText(sections[j][3])) <= Self.max_tokens
       /\ Len(ChunksOf(j)) = 1
       /\ ChunksOf(j)[1].subsection = None
  /\ \E j \in 1..Len(sections) :
       /\ SubsectionMatches(SectionText(sections[j][3])) = <<>>
       /\ estimate_tokens(SectionText(sections[j][3])) > Self.max_tokens
       /\ Len(ChunksOf(j)) >= 2

\* The characters between the parentheses of the marker that starts at p.
MarkInner(s, p) == SubSeq(s, p + 1, MarkEnd(s, p) - 2)

\* The marker at p is numbered like the marker at q: both hold digits, or
\* both hold letters ((1) and (2) are one level, (a) and (b) another).
SameLevel(s, p, q) ==
  (MarkInner(s, p)[1] \in DIGITS) <=> (MarkInner(s, q)[1] \in DIGITS)

\* The parent spans of text t: one per marker of the first marker's level,
\* from that marker to the next marker of the same level (or the end of the
\* text), as <<marker, body>> with the marker cut from the body.
ParentSpans(t) ==
  LET all == SubsectionMatches(t)
      tops == SelectSeq(all, LAMBDA p : SameLevel(t, p, all[1]))
  IN [a \in 1..Len(tops) |->
        <<SubSeq(t, tops[a], MarkEnd(t, tops[a]) - 1),
          trim_whitespace(SubSeq(t, MarkEnd(t, tops[a]),
                                 IF a < Len(tops) THEN tops[a + 1] - 1 ELSE Len(t)))>>]

\* The subsection is the parent marker followed by exactly one marker of
\* the parent's body.
IsComposite(subsection, span) ==
  \E p \in 1..Len(span[2]) :
    /\ MarkEnd(span[2], p) > 0
    /\ subsection = span[1] \o SubSeq(span[2], p, MarkEnd(span[2], p) - 1)

\* C22: nested splitting goes one level deep and only for oversized spans: a
\* chunk carries a two-marker subsection (parent marker + child marker) if
\* and only if its parent span is estimated above max_tokens and the body of
\* the parent span holds at least two markers; every other chunk carries None
\* or one marker.
C22_NestedSplitOneLevel ==
  pc = "parsed" =>
    \A j \in 1..Len(sections) :
      LET t == SectionText(sections[j][3])
          spans == IF Len(SubsectionMatches(t)) < 2 THEN <<>> ELSE ParentSpans(t)
          cs == ChunksOf(j)
      IN \A a \in 1..Len(spans) :
           LET nested == /\ estimate_tokens(spans[a][2]) > Self.max_tokens
                         /\ Len(SubsectionMatches(spans[a][2])) >= 2
           IN nested <=> \E m \in 1..Len(cs) : IsComposite(cs[m].subsection, spans[a])

\* The subsection is None or exactly one marker.
AtMostOneMarker(subsection) ==
  \/ subsection = None
  \/ MarkEnd(subsection, 1) = Len(subsection) + 1

\* No chunk carries a two-marker subsection, and no span that
\* _split_by_subsections returns holds a marker in its body (the nested
\* split of lines 264-270 finds nothing to split).
NestedSplitNeverHappens ==
  pc = "parsed" =>
    /\ \A m \in 1..Len(chunks) : AtMostOneMarker(chunks[m].subsection)
    /\ \A j \in 1..Len(sections) :
         LET subs == _split_by_subsections(SectionText(sections[j][3]))
         IN \A a \in 1..Len(subs) : SubsectionMatches(subs[a][2]) = <<>>

\* The units of a section text: the whole text without marker when it holds
\* fewer than two markers, its spans otherwise; as <<marker, body>>, the
\* units with an empty body left out.
UnitsOf(t) ==
  LET subs == _split_by_subsections(t)
  IN SelectSeq(IF subs = <<>> THEN <<<<None, t>>>> ELSE subs,
               LAMBDA u : u[2] # <<>>)

\* The valid min_tokens for the max_tokens of the chunker at hand that the
\* comparison runs over: the least, the greatest and the one in use.
OtherMinTokens == {1, Self.max_tokens - 1, Self.min_tokens}

RECURSIVE ClaimedRegroup(_, _, _, _)
ClaimedRegroup(pieces, n, buffer, limit) ==
  IF n > Len(pieces)
  THEN IF buffer # <<>> THEN <<JoinSp(buffer)>> ELSE <<>>
  ELSE IF /\ buffer # <<>>
          /\ estimate_tokens(JoinSp(Append(buffer, pieces[n]))) > limit
       THEN <<JoinSp(buffer)>> \o ClaimedRegroup(pieces, n + 1, <<pieces[n]>>, limit)
       ELSE ClaimedRegroup(pieces, n + 1, Append(buffer, pieces[n]), limit)

\* C24: in sentence regrouping the buffer is flushed as one chunk exactly
\* when appending the next piece would make the estimate of the pieces joined
\* into one text exceed max_tokens: the chunks of a unit that is split on
\* sentences (a section with fewer than two markers, estimated above
\* max_tokens) are the maximal runs of consecutive pieces whose joined
\* estimate is at most max_tokens.
C24_FlushOnJoinedEstimate ==
  pc = "parsed" =>
    \A j \in 1..Len(sections) :
      LET t == SectionText(sections[j][3])
      IN (Len(SubsectionMatches(t)) < 2 /\ estimate_tokens(t) > Self.max_tokens) =>
           Bodies(ChunksOf(j)) =
             ClaimedRegroup(split_on_sentences(t), 1, <<>>, Self.max_tokens)

\* The unit body is routed to sentence splitting: it is estimated above
\* max_tokens and holds sentence punctuation followed by whitespace.
RoutedToSentences(body) ==
  /\ estimate_tokens(body) > Self.max_tokens
  /\ SentenceBreaks(body) # <<>>

\* C25: for a unit routed to sentence splitting, the bodies of the chunks
\* emitted, joined in emission order with single spaces, are exactly the
\* normalized body of the unit, and no chunk is empty: for a section with a
\* unit routed to sentence splitting, the joined chunk bodies are the joined
\* bodies of the section's units (a unit within max_tokens being one chunk).
C25_SentenceSplitConserves ==
  pc = "parsed" =>
    \A j \in 1..Len(sections) :
      LET units == UnitsOf(SectionText(sections[j][3]))
          cs == ChunksOf(j)
      IN (\E u \in 1..Len(units) : RoutedToSentences(units[u][2])) =>
           /\ JoinSp(Bodies(cs)) = JoinSp([u \in 1..Len(units) |-> units[u][2]])
           /\ \A m \in 1..Len(cs) : cs[m].content # <<>>

\* parse_document returned for a section that is a single unit routed to
\* sentence splitting and was emitted as several chunks.
C25_Witness ==
  /\ pc = "parsed"
  /\ \E j \in 1..Len(sections) :
       LET t == SectionText(sections[j][3])
       IN /\ Len(SubsectionMatches(t)) < 2
          /\ RoutedToSentences(t)
          /\ Len(ChunksOf(j)) >= 2
          /\ JoinSp(Bodies(ChunksOf(j))) = t

\* ------------------------------------------------- _hard_split, called alone
\* The texts _hard_split is called with.
HardTexts == BodyPool

\* max_chars = self.max_tokens * CHARS_PER_TOKEN
max_chars == Self.max_tokens * CHARS_PER_TOKEN

\* Mutant of HardSplitEnd: the slice is max_tokens characters long (the
\* factor CHARS_PER_TOKEN is forgotten).
HardSplitEndInTokens(text_len, start, width) ==
  Min(text_len, start + width \div CHARS_PER_TOKEN)

\* end = min(len(text), start + max_chars)
HardSplitEnd(text_len, start, width) == Min(text_len, start + width)

\* A caller that holds a chunker calls _hard_split(text, ...): lines 370-372.
HardSplitCall ==
  /\ pc = "ready"
  /\ \E t \in HardTexts : hs_text' = t
  /\ hs_start' = 0
  /\ hs_out' = <<>>
  /\ hs_iterations' = 0
  /\ pc' = "hard_split"
  /\ UNCHANGED <<instance_vars, scan_vars, hier_vars, chunk_vars, prep_vars,
                 ingest_vars>>

\* One iteration of the while loop of lines 373-378.
HardSplitStep ==
  /\ pc = "hard_split"
  /\ hs_start < Len(hs_text)
  /\ LET end == HardSplitEnd(Len(hs_text), hs_start, max_chars)
         piece == trim_whitespace(SubSeq(hs_text, hs_start + 1, end))
     IN /\ hs_out' = IF piece # <<>> THEN Append(hs_out, piece) ELSE hs_out
        /\ hs_start' = end
  /\ hs_iterations' = hs_iterations + 1
  /\ UNCHANGED <<pc, hs_text, instance_vars, scan_vars, hier_vars, chunk_vars,
                 prep_vars, ingest_vars>>

\* return out
HardSplitReturn ==
  /\ pc = "hard_split"
  /\ hs_start >= Len(hs_text)
  /\ pc' = "hard_returned"
  /\ UNCHANGED <<instance_vars, scan_vars, hier_vars, chunk_vars, prep_vars,
                 ingest_vars, split_vars>>

TermNext ==
  \/ Next
  \/ HardSplitCall
  \/ HardSplitStep
  \/ HardSplitReturn

TermSpec == Init /\ [][TermNext]_vars

\* ceil(n / d)
CeilDiv(n, d) == (n + d - 1) \div d

\* A call of parse_document or of _hard_split is running.
Running == pc \in {"pass1", "pass2", "chunk", "hard_split"}

\* How many of the loops of a running call are still ahead, and how many
\* iterations of the loop at hand are.
LoopsAhead ==
  CASE pc = "pass1" -> 3
    [] pc = "pass2" -> 2
    [] pc \in {"chunk", "hard_split"} -> 1
    [] OTHER -> 0
IterationsAhead ==
  CASE pc \in {"pass1", "pass2"} -> Len(text) + 1 - i
    [] pc = "chunk" -> Len(sections) + 1 - idx
    [] pc = "hard_split" -> Len(hs_text) - hs_start
    [] OTHER -> 0

\* C26: parse_document terminates for every text and every valid pair of
\* bounds, and so does _hard_split: the code is sequential, so a running call
\* always takes its next step, and every step either ends a loop or uses up
\* one of the finitely many iterations the loop has left; every iteration of
\* the loop of _hard_split advances start by at least one character, and
\* that loop runs at most ceil(len(text) / (max_tokens * 4)) times.
C26_Terminates ==
  /\ [](Running => IterationsAhead >= 0)
  /\ [][Running =>
          \/ LoopsAhead' < LoopsAhead
          \/ LoopsAhead' = LoopsAhead /\ IterationsAhead' < IterationsAhead]_vars
  /\ [][(pc = "hard_split" /\ hs_iterations' # hs_iterations) =>
          hs_start' >= hs_start + 1]_vars
  /\ [](pc \in {"hard_split", "hard_returned"} =>
          hs_iterations <= CeilDiv(Len(hs_text), Self.max_tokens * CHARS_PER_TOKEN))

\* _hard_split returned after several iterations of its loop, the allowed
\* number exactly, with the slices of its text.
C26_Witness ==
  /\ pc = "hard_returned"
  /\ hs_iterations >= 2
  /\ hs_iterations = CeilDiv(Len(hs_text), max_chars)
  /\ hs_start = Len(hs_text)
  /\ hs_out = HardSlices(max_chars, hs_text, 1)

RECURSIVE SentenceLoopLens(_, _, _, _, _)
\* The for loop of _chunk_text_body as in SentenceLoop, giving for each chunk
\* appended the value of current_len when its buffer was flushed: the token
\* count the loop compared against max_tokens on behalf of that chunk.
SentenceLoopLens(self, sentences, n, current, current_len) ==
  IF n > Len(sentences)
  THEN IF current # <<>> /\ trim_whitespace(JoinSp(current)) # <<>>
       THEN <<current_len>> ELSE <<>>
  ELSE LET s == trim_whitespace(sentences[n])
           tks == estimate_tokens(s)
       IN IF s = <<>>
          THEN SentenceLoopLens(self, sentences, n + 1, current, current_len)
          ELSE IF current # <<>> /\ current_len + tks > self.max_tokens
               THEN (IF trim_whitespace(JoinSp(current)) # <<>>
                     THEN <<current_len>> ELSE <<>>)
                      \o SentenceLoopLens(self, sentences, n + 1, <<s>>, tks)
               ELSE SentenceLoopLens(self, sentences, n + 1,
                                     Append(current, s), current_len + tks)

\* For each chunk _chunk_text_body returns for body, the token count that
\* was compared against max_tokens for it: tokens (line 323) for a text
\* emitted directly, current_len (line 344) for a regrouped buffer.
ComparedTokens(self, body) ==
  LET t == trim_whitespace(body)
      tokens == estimate_tokens(t)
  IN IF t = <<>> THEN <<>>
     ELSE IF tokens <= self.max_tokens THEN <<tokens>>
     ELSE SentenceLoopLens(self, split_on_sentences(t), 1, <<>>, 0)

\* C27: the token estimate is one function everywhere: for every chunk,
\* token_count is max(1, ceil(len(content) / 4)), it is the value stored
\* under token_count in the chunk's metadata, and it is the value that was
\* compared against max_tokens when the chunk was bounded (checked for the
\* chunks of sections that are a single unit).
C27_OneTokenEstimate ==
  /\ \A m \in 1..Len(chunks) :
       chunks[m].token_count =
         Max(1, (Len(chunks[m].content) + 3) \div 4)
  /\ \A m \in 1..Len(metadatas) :
       metadatas[m].token_count = chunks[m].token_count
  /\ pc = "parsed" =>
       \A j \in 1..Len(sections) :
         LET t == SectionText(sections[j][3])
             cs == ChunksOf(j)
         IN Len(SubsectionMatches(t)) < 2 =>
              [m \in 1..Len(cs) |-> cs[m].token_count] = ComparedTokens(Self, t)

\* The condition under which _chunk_text_body calls _hard_split (lines
\* 315-334): the text is not empty, its estimate exceeds max_tokens and
\* split_on_sentences returns no piece.
HardSplitRuns(self, body) ==
  LET t == trim_whitespace(body)
  IN /\ t # <<>>
     /\ estimate_tokens(t) > self.max_tokens
     /\ split_on_sentences(t) = <<>>

\* C28: the hard character-slice fallback is reachable: for a unit body
\* without sentence punctuation whose estimate exceeds max_tokens,
\* split_on_sentences returns no pieces and parse_document executes
\* _hard_split.
C28_HardSplitReachable ==
  pc = "parsed" =>
    \A j \in 1..Len(sections) :
      UnpunctuatedOversized(j) =>
        HardSplitRuns(Self, SectionText(sections[j][3]))

\* No unit of any section parse_document has chunked satisfies the
\* condition under which _hard_split is called.
HardSplitNeverRuns ==
  pc = "parsed" =>
    \A j \in 1..Len(sections) :
      LET units == UnitsOf(SectionText(sections[j][3]))
      IN \A u \in 1..Len(units) : ~HardSplitRuns(Self, units[u][2])

SpansFromFirstMarker(t) ==
  LET starts == SubsectionMatches(t)
  IN [a \in 1..Len(starts) |->
        <<SubSeq(t, starts[a], MarkEnd(t, starts[a]) - 1),
          trim_whitespace(SubSeq(t, MarkEnd(t, starts[a]),
                                 IF a < Len(starts) THEN starts[a + 1] - 1
                                 ELSE Len(t)))>>]

\* C30: when a section's text holds two or more markers, the spans start at
\* the first marker: the chunks of the section hold the text of the spans
\* and nothing else (the text before the first marker is in no chunk), no
\* chunk is empty, and the markers the chunks carry are those of the spans
\* with a non-empty body (a span whose body is empty gives no chunk).
C30_SpansStartAtFirstMarker ==
  pc = "parsed" =>
    \A j \in 1..Len(sections) :
      LET t == SectionText(sections[j][3])
          kept == SelectSeq(SpansFromFirstMarker(t), LAMBDA sp : sp[2] # <<>>)
          cs == ChunksOf(j)
      IN Len(SubsectionMatches(t)) >= 2 =>
           /\ JoinSp(Bodies(cs)) = JoinSp([a \in 1..Len(kept) |-> kept[a][2]])
           /\ \A m \in 1..Len(cs) : cs[m].content # <<>>
           /\ {cs[m].subsection : m \in 1..Len(cs)}
                = {kept[a][1] : a \in 1..Len(kept)}

\* parse_document returned for a section whose text has text before its
\* first marker and a marker followed at once by the next marker: fewer
\* chunks than markers, none for the empty span, none holding the preamble.
C30_Witness ==
  /\ pc = "parsed"
  /\ \E j \in 1..Len(sections) :
       LET t == SectionText(sections[j][3])
           spans == SpansFromFirstMarker(t)
       IN /\ Len(spans) >= 2
          /\ SubsectionMatches(t)[1] > 1
          /\ \E a \in 1..Len(spans) : spans[a][2] = <<>>
          /\ ChunksOf(j) # <<>>
          /\ Len(ChunksOf(j)) < Len(spans)

====
